---- MODULE Spec2Model ----
(***************************************************************************)
(* Citation tracking and reference management of the CMC regulatory        *)
(* writer: DocumentCitationRegistry (backend/app/models/citation_tracker), *)
(* CitationTracker (backend/app/services/citation_tracker) and the part of *)
(* GenerationService.synthesize_section that feeds them.                   *)
(*                                                                         *)
(* Python objects are modelled by reference: `heap` holds the registry     *)
(* objects, `registries` is the module-level dict _global_registries that  *)
(* maps a document_id to a reference into the heap.                        *)
(***************************************************************************)
EXTENDS Integers, Sequences, FiniteSets, TLC

\* ------------------------------------------------------------------ bounds
MaxPage == 3          \* page numbers offered to the operations: 1..MaxPage
MaxOps == 3           \* tracker operations per behaviour of Spec
MaxAdds == 4          \* registry operations per behaviour of SpecRegistry
MaxObjs == 2          \* registry objects ever allocated
MaxChunks == 2        \* chunks / retrieved documents handed to one call
MaxTasks == 2         \* concurrent generate_document requests
MaxSections == 1      \* sections of one request
MaxDocs == 2          \* documents one retrieval returns
MaxUuid == 2          \* uuid4 values drawn per behaviour
MaxParagraphs == 3    \* paragraphs of one section's content
MaxCitations == 3     \* citation numbers collected for one section
MaxTokens == 3        \* hyphen-separated tokens of a drawn filename
MaxToc == 2           \* sections of the template of one generate_document call
MaxCalls == 2         \* generate_document calls for one session

\* ------------------------------------------------------------ input domains
Docs == {"A", "B"}
Sources == {"doc1.pdf", "doc2.pdf"}
ChunkIds == {"a", "b", "c"}
Pages == 1..MaxPage
ShortText == "stability data"
LongText == "The drug substance was stored at 25C/60%RH and 40C/75%RH for 24 months; assay, related substances, water content and dissolution were tested at every pull point and remained within the registered specification limits"
Contents == {ShortText, LongText}
QuotedText == "assay \"pass\" (see 3.2.S.7\\stability, [1]): within limits"
\* the text of the chunk a caller-chosen chunk_id stands for
ContentOf(cid) == IF cid = "b" THEN LongText ELSE ShortText
NoDoc == "<None>"
Absent == "<absent>"

\* ------------------------------------------------------------- data model
\* ChunkCitation(chunk_id, pdf_name, page_number, text_excerpt); the optional
\* bibliographic fields keep their defaults and are not carried.
ChunkCitation(cid, name, page, excerpt) ==
    [chunk_id |-> cid, pdf_name |-> name, page_number |-> page, text_excerpt |-> excerpt]

\* A value offered as page_number: an integer, or something that is none.
IntValue(n) == [int |-> TRUE, v |-> n]
NoneValue == [int |-> FALSE, v |-> 0]

\* Field(..., ge=1) on page_number: the constructor raises a ValidationError
\* for anything that is not an integer >= 1.
ValidPage(p) == p.int /\ p.v >= 1

\* InlineCitation as add_citation builds it for number n.
InlineCitation(n, c) ==
    [citation_number |-> n,
     chunk_citation  |-> c,
     marker_text     |-> "[" \o ToString(n) \o "]",
     anchor_id       |-> "cite-" \o ToString(n)]

\* A fresh DocumentCitationRegistry.
NewRegistry(d, session, auto) ==
    [document_id |-> d,
     session_id |-> session,
     citations |-> <<>>,
     inline_citations |-> <<>>,
     citation_counter |-> 0,
     citation_style |-> "APA",
     auto_generate_references |-> auto]

\* text[:limit] + '...' if len(text) > limit else text
Excerpt(text, limit) ==
    IF Len(text) > limit THEN SubSeq(text, 1, limit) \o "..." ELSE text

\* ------------------------------------------- DocumentCitationRegistry.add_citation
SourceKey(c) == c.pdf_name \o "|" \o ToString(c.page_number)

\* smallest element of a non-empty set of list positions: the position at
\* which a front-to-back scan returns
MinOf(S) == CHOOSE i \in S : \A j \in S : i <= j

\* the scan with the page left out of the key
FindBySourceKey_ByName(reg, c) ==
    LET hits == {i \in 1..Len(reg.inline_citations) :
                    reg.inline_citations[i].chunk_citation.pdf_name = c.pdf_name}
    IN  IF hits = {} THEN 0 ELSE MinOf(hits)

\* for existing_inline in self.inline_citations: if existing_key == source_key
\* (position of the first match, 0 when the loop falls through)
FindBySourceKey(reg, c) ==
    LET hits == {i \in 1..Len(reg.inline_citations) :
                    SourceKey(reg.inline_citations[i].chunk_citation) = SourceKey(c)}
    IN  IF hits = {} THEN 0 ELSE MinOf(hits)

\* add_citation without its chunk_id fallback
FindByChunkId_Never(reg, c) == 0

\* if chunk_citation.chunk_id in self.citations: for inline_cite in ...
FindByChunkId(reg, c) ==
    LET hits == {i \in 1..Len(reg.inline_citations) :
                    reg.inline_citations[i].chunk_citation.chunk_id = c.chunk_id}
    IN  IF c.chunk_id \in DOMAIN reg.citations /\ hits # {} THEN MinOf(hits) ELSE 0

\* the new-citation branch inserting at the head of the list
Admit_AtHead(reg, c) ==
    LET n == reg.citation_counter + 1
    IN  [reg EXCEPT !.citation_counter = n,
                    !.citations = (c.chunk_id :> c) @@ reg.citations,
                    !.inline_citations = <<InlineCitation(n, c)>> \o reg.inline_citations]

\* The new-citation branch: counter += 1, citations[chunk_id] = c, append.
Admit(reg, c) ==
    LET n == reg.citation_counter + 1
    IN  [reg EXCEPT !.citation_counter = n,
                    !.citations = (c.chunk_id :> c) @@ reg.citations,
                    !.inline_citations = Append(reg.inline_citations, InlineCitation(n, c))]

\* add_citation with the counter incremented before the duplicate checks
AddCitation_CountsEveryCall(reg, c) ==
    LET i == FindBySourceKey(reg, c)
        j == FindByChunkId(reg, c)
        counted == [reg EXCEPT !.citation_counter = reg.citation_counter + 1]
    IN  IF i # 0 THEN [reg |-> counted, ret |-> reg.inline_citations[i], admitted |-> FALSE]
        ELSE IF j # 0 THEN [reg |-> counted, ret |-> reg.inline_citations[j], admitted |-> FALSE]
        ELSE LET r == Admit(reg, c)
             IN  [reg |-> r, ret |-> r.inline_citations[Len(r.inline_citations)], admitted |-> TRUE]

\* add_citation as a function: the registry afterwards, the returned
\* InlineCitation and whether a new entry was admitted.
AddCitation(reg, c) ==
    LET i == FindBySourceKey(reg, c)
        j == FindByChunkId(reg, c)
    IN  IF i # 0 THEN [reg |-> reg, ret |-> reg.inline_citations[i], admitted |-> FALSE]
        ELSE IF j # 0 THEN [reg |-> reg, ret |-> reg.inline_citations[j], admitted |-> FALSE]
        ELSE LET r == Admit(reg, c)
             IN  [reg |-> r, ret |-> r.inline_citations[Len(r.inline_citations)], admitted |-> TRUE]

\* ------------------------------------------------------------ characters
Digits == <<"0", "1", "2", "3", "4", "5", "6", "7", "8", "9">>
IsDigit(ch) == \E k \in 1..10 : Digits[k] = ch
DigitValue(ch) == (CHOOSE k \in 1..10 : Digits[k] = ch) - 1

RECURSIVE ParseDigits(_, _, _)
\* int() of the maximal run of digits of str that starts at position i,
\* acc being the value of the digits already consumed
ParseDigits(str, i, acc) ==
    IF i > Len(str) \/ ~IsDigit(SubSeq(str, i, i)) THEN acc
    ELSE ParseDigits(str, i + 1, acc * 10 + DigitValue(SubSeq(str, i, i)))

\* ------------------------------------------------------ reference formatter
Lowers == <<"a","b","c","d","e","f","g","h","i","j","k","l","m",
            "n","o","p","q","r","s","t","u","v","w","x","y","z">>
Uppers == <<"A","B","C","D","E","F","G","H","I","J","K","L","M",
            "N","O","P","Q","R","S","T","U","V","W","X","Y","Z">>
IsLower(ch) == \E k \in 1..26 : Lowers[k] = ch
IsUpper(ch) == \E k \in 1..26 : Uppers[k] = ch
ToUpper(ch) == IF IsLower(ch) THEN Uppers[CHOOSE k \in 1..26 : Lowers[k] = ch] ELSE ch
ToLower(ch) == IF IsUpper(ch) THEN Lowers[CHOOSE k \in 1..26 : Uppers[k] = ch] ELSE ch

RECURSIVE TitleFrom(_, _, _)
\* str.title() from position i on: a letter that follows a letter is
\* lowercased, any other letter is uppercased
TitleFrom(str, i, afterLetter) ==
    IF i > Len(str) THEN ""
    ELSE LET ch == SubSeq(str, i, i)
             letter == IsLower(ch) \/ IsUpper(ch)
         IN  (IF ~letter THEN ch ELSE IF afterLetter THEN ToLower(ch) ELSE ToUpper(ch))
                 \o TitleFrom(str, i + 1, letter)

Title(str) == TitleFrom(str, 1, FALSE)

RECURSIVE RemoveAll(_, _, _)
\* str.replace(pat, '') from position i on
RemoveAll(str, pat, i) ==
    IF i > Len(str) THEN ""
    ELSE IF i + Len(pat) - 1 <= Len(str) /\ SubSeq(str, i, i + Len(pat) - 1) = pat
         THEN RemoveAll(str, pat, i + Len(pat))
    ELSE SubSeq(str, i, i) \o RemoveAll(str, pat, i + 1)

\* pdf_name.replace('.pdf', '').replace('.PDF', '')
StripExtension(name) == RemoveAll(RemoveAll(name, ".pdf", 1), ".PDF", 1)

RECURSIVE SplitFrom(_, _, _)
\* str.split('-') from position i on, cur being the part read so far
SplitFrom(str, i, cur) ==
    IF i > Len(str) THEN <<cur>>
    ELSE IF SubSeq(str, i, i) = "-" THEN <<cur>> \o SplitFrom(str, i + 1, "")
    ELSE SplitFrom(str, i + 1, cur \o SubSeq(str, i, i))

Split(str) == SplitFrom(str, 1, "")

\* part.isdigit() and len(part) == 4 and 1900 <= int(part) <= 2030
IsYear(part) ==
    /\ Len(part) = 4
    /\ \A i \in 1..4 : IsDigit(SubSeq(part, i, i))
    /\ ParseDigits(part, 1, 0) >= 1900
    /\ ParseDigits(part, 1, 0) <= 2030

\* position of the first year token of parts, 0 when there is none
YearIndex(parts) ==
    LET ys == {i \in 1..Len(parts) : IsYear(parts[i])}
    IN  IF ys = {} THEN 0 ELSE MinOf(ys)

RECURSIVE JoinWith(_, _, _)
\* sep.join(parts[i:])
JoinWith(parts, sep, i) ==
    IF i > Len(parts) THEN ""
    ELSE IF i = Len(parts) THEN parts[i]
    ELSE parts[i] \o sep \o JoinWith(parts, sep, i + 1)

RECURSIVE KeepAuthors(_, _)
\* [p.title() for p in parts[i:] if p.lower() not in ['et', 'al', 'and']]
KeepAuthors(parts, i) ==
    IF i > Len(parts) THEN <<>>
    ELSE LET low == JoinWith([k \in 1..Len(parts[i]) |-> ToLower(SubSeq(parts[i], k, k))], "", 1)
         IN  (IF low \in {"et", "al", "and"} THEN <<>> ELSE <<Title(parts[i])>>)
                 \o KeepAuthors(parts, i + 1)

\* _extract_authors_from_filename(pdf_name)
ExtractAuthorsFromFilename(name) ==
    LET parts == Split(StripExtension(name))
        y == YearIndex(parts)
        authorParts == SubSeq(parts, 1, y - 1)
    IN  IF Len(parts) >= 3 /\ y > 1
        THEN IF Len(authorParts) > 2 /\ authorParts[2] = "et" /\ authorParts[3] = "al"
             THEN <<Title(authorParts[1])>>
             ELSE LET authors == KeepAuthors(authorParts, 1)
                  IN  SubSeq(authors, 1, IF Len(authors) < 3 THEN Len(authors) ELSE 3)
        ELSE <<Title(parts[1])>>

\* _extract_title_from_filename(pdf_name)
ExtractTitleFromFilename(name) ==
    LET parts == Split(StripExtension(name))
        y == YearIndex(parts)
        titled == [k \in 1..Len(parts) |-> Title(parts[k])]
    IN  IF Len(parts) >= 3 /\ y > 0 /\ y < Len(parts)
        THEN JoinWith(titled, " ", y + 1)
        ELSE JoinWith(titled, " ", 1)

\* the APA entry without its page
FormatReference_NoPage(e) ==
    LET c == e.chunk_citation
        authors == ExtractAuthorsFromFilename(c.pdf_name)
        first == IF Len(authors) = 1 THEN authors[1] \o "." ELSE authors[1] \o " et al."
    IN  JoinWith(<<first, "*" \o ExtractTitleFromFilename(c.pdf_name) \o "*.">>, " ", 1)

\* _format_apa_reference for a citation without authors, date, journal and
\* link (the citations this model carries; _format_reference picks APA)
FormatReference(e) ==
    LET c == e.chunk_citation
        authors == ExtractAuthorsFromFilename(c.pdf_name)
        first == IF Len(authors) = 1 THEN authors[1] \o "." ELSE authors[1] \o " et al."
    IN  JoinWith(<<first,
                   "*" \o ExtractTitleFromFilename(c.pdf_name) \o "*.",
                   "Page " \o ToString(c.page_number) \o ".">>, " ", 1)

ReferencesHeading == "## References\n"

\* generate_references_section without its empty-registry return
RegistryReferences_NoEmptyCheck(reg) ==
    JoinWith(<<ReferencesHeading>> \o
             [k \in 1..Len(reg.inline_citations) |->
                 ToString(reg.inline_citations[k].citation_number) \o ". "
                     \o FormatReference(reg.inline_citations[k]) \o "\n"],
             "\n", 1)

\* DocumentCitationRegistry.generate_references_section: the list `references`
\* and its "\n".join
RegistryReferences(reg) ==
    IF Len(reg.inline_citations) = 0 THEN ""
    ELSE JoinWith(<<ReferencesHeading>> \o
                  [k \in 1..Len(reg.inline_citations) |->
                      ToString(reg.inline_citations[k].citation_number) \o ". "
                          \o FormatReference(reg.inline_citations[k]) \o "\n"],
                  "\n", 1)

\* --------------------------------------------------------------------- JSON
Ch(str, i) == IF i >= 1 /\ i <= Len(str) THEN SubSeq(str, i, i) ELSE ""

RECURSIVE FirstOf(_, _, _)
\* the first position from i on at which str has one of chars, 0 for none
\* (the text is searched sixteen characters at a time)
FirstOf(str, i, chars) ==
    IF i > Len(str) THEN 0
    ELSE LET hits == {j \in i..(i + 15) : j <= Len(str) /\ SubSeq(str, j, j) \in chars}
         IN  IF hits = {} THEN FirstOf(str, i + 16, chars) ELSE MinOf(hits)

RECURSIVE EscapeFrom(_, _)
\* the body of a JSON string literal for str from position i on: quote,
\* backslash and newline are escaped, everything else is copied
EscapeFrom(str, i) ==
    LET j == FirstOf(str, i, {"\"", "\\", "\n"})
    IN  IF j = 0 THEN SubSeq(str, i, Len(str))
        ELSE SubSeq(str, i, j - 1)
                 \o (IF Ch(str, j) = "\"" THEN "\\\"" ELSE IF Ch(str, j) = "\\" THEN "\\\\" ELSE "\\n")
                 \o EscapeFrom(str, j + 1)

\* a string literal that escapes nothing
JsonString_NoEscape(str) == "\"" \o str \o "\""

\* json.dumps / model_dump_json of a str
JsonString(str) == "\"" \o EscapeFrom(str, 1) \o "\""

\* a parsed JSON value: a string, an integer, an array of values, an object
\* as the list of its members, or one of null, true, false
JStr(x) == [t |-> "str", s |-> x, n |-> 0, items |-> <<>>]
JInt(x) == [t |-> "int", s |-> "", n |-> x, items |-> <<>>]
JArr(xs) == [t |-> "arr", s |-> "", n |-> 0, items |-> xs]
JObj(ms) == [t |-> "obj", s |-> "", n |-> 0, items |-> ms]
JWord(w) == [t |-> "word", s |-> w, n |-> 0, items |-> <<>>]

RECURSIVE SkipSpaces(_, _)
SkipSpaces(str, i) ==
    IF Ch(str, i) \in {" ", "\n"} THEN SkipSpaces(str, i + 1) ELSE i

RECURSIVE Unescape(_, _)
\* the text of a string literal's body from position i on: a backslash
\* stands for the character after it, \n for a newline
Unescape(body, i) ==
    LET j == FirstOf(body, i, {"\\"})
    IN  IF j = 0 THEN SubSeq(body, i, Len(body))
        ELSE SubSeq(body, i, j - 1)
                 \o (IF Ch(body, j + 1) = "n" THEN "\n" ELSE Ch(body, j + 1))
                 \o Unescape(body, j + 2)

RECURSIVE ClosingQuote(_, _)
\* the position of the quote that closes the literal read from position i
\* on: the first quote that no backslash escapes
ClosingQuote(str, i) ==
    LET j == FirstOf(str, i, {"\"", "\\"})
    IN  IF j = 0 THEN Len(str) + 1
        ELSE IF Ch(str, j) = "\\" THEN ClosingQuote(str, j + 2)
        ELSE j

\* the string literal whose opening quote precedes position i
ReadString(str, i) ==
    LET j == ClosingQuote(str, i)
    IN  [v |-> Unescape(SubSeq(str, i, j - 1), 1), next |-> j + 1]

RECURSIVE RunEnd(_, _)
\* the position after the run of digits and letters that starts at i
RunEnd(str, i) ==
    IF IsDigit(Ch(str, i)) \/ IsLower(Ch(str, i)) THEN RunEnd(str, i + 1) ELSE i

RECURSIVE ParseValue(_, _)
RECURSIVE ParseItems(_, _, _)
RECURSIVE ParseMembers(_, _, _)

\* json.loads from position i0 on: the value and the position after it
ParseValue(str, i0) ==
    LET i == SkipSpaces(str, i0)
    IN  IF Ch(str, i) = "\""
        THEN LET r == ReadString(str, i + 1) IN [v |-> JStr(r.v), next |-> r.next]
        ELSE IF Ch(str, i) = "["
        THEN LET r == ParseItems(str, i + 1, <<>>) IN [v |-> JArr(r.v), next |-> r.next]
        ELSE IF Ch(str, i) = "{"
        THEN LET r == ParseMembers(str, i + 1, <<>>) IN [v |-> JObj(r.v), next |-> r.next]
        ELSE IF IsDigit(Ch(str, i))
        THEN [v |-> JInt(ParseDigits(str, i, 0)), next |-> RunEnd(str, i)]
        ELSE [v |-> JWord(SubSeq(str, i, RunEnd(str, i) - 1)),
              next |-> IF RunEnd(str, i) = i THEN i + 1 ELSE RunEnd(str, i)]

\* the elements of an array up to its closing bracket
ParseItems(str, i0, acc) ==
    LET i == SkipSpaces(str, i0)
    IN  IF i > Len(str) \/ Ch(str, i) = "]" THEN [v |-> acc, next |-> i + 1]
        ELSE IF Ch(str, i) = "," THEN ParseItems(str, i + 1, acc)
        ELSE LET r == ParseValue(str, i) IN ParseItems(str, r.next, Append(acc, r.v))

\* the members of an object up to its closing brace
ParseMembers(str, i0, acc) ==
    LET i == SkipSpaces(str, i0)
    IN  IF i > Len(str) \/ Ch(str, i) = "}" THEN [v |-> acc, next |-> i + 1]
        ELSE IF Ch(str, i) # "\"" THEN ParseMembers(str, i + 1, acc)
        ELSE LET k == ReadString(str, i + 1)
                 r == ParseValue(str, SkipSpaces(str, k.next) + 1)
             IN  ParseMembers(str, r.next, Append(acc, [k |-> k.v, v |-> r.v]))

JsonLoads(str) == ParseValue(str, 1).v

\* obj[key] of a parsed object (the last member of that name, as json.loads
\* keeps it), null when there is none
Member(obj, key) ==
    LET hits == {i \in 1..Len(obj.items) : obj.items[i].k = key}
    IN  IF obj.t # "obj" \/ hits = {} THEN JWord("null")
        ELSE obj.items[CHOOSE i \in hits : \A j \in hits : j <= i].v

\* ------------------------------------------------------------------- state
VARIABLES
    registries,   \* _global_registries: document_id -> reference (0 = no entry)
    heap,         \* the DocumentCitationRegistry objects, by reference
    uuids,        \* uuid4 values drawn so far
    nOps,         \* operations performed
    last,         \* the last operation: its arguments and what it returned
    hist,         \* per registry object: what the add_citation calls made through
                  \* the tracker returned
    tasks,        \* the generate_document requests in flight, by task
    running,      \* the task that holds the event loop (0 = the loop is idle)
    document      \* one generate_document call seen section by section: its
                  \* all_sections, each section's progress, generated_sections

vars == <<registries, heap, uuids, nOps, last, hist, tasks, running, document>>
pipeline == <<tasks, running, document>>

NoCitation == ChunkCitation("", "", 0, "")

\* the record of one operation and its outcome
Outcome(op, d, obj, c, ret, admitted, raised, out) ==
    [op |-> op, doc |-> d, obj |-> obj, cit |-> c, ret |-> ret,
     admitted |-> admitted, raised |-> raised, out |-> out]

\* the observation history of one registry object
NoHistory == [returns |-> {}, submitted |-> <<>>, cids |-> {}, cidReused |-> FALSE]

Range(seq) == {seq[i] : i \in 1..Len(seq)}

\* record one add_citation(c) call that returned entry e
Observe(h, c, e) ==
    LET key == <<c.pdf_name, c.page_number>>
    IN  [returns   |-> h.returns \cup {[cid |-> c.chunk_id, key |-> key, num |-> e.citation_number]},
         submitted |-> IF key \in Range(h.submitted) THEN h.submitted ELSE Append(h.submitted, key),
         cids      |-> h.cids \cup {c.chunk_id},
         cidReused |-> h.cidReused \/ c.chunk_id \in h.cids]

Uuid(n) == "uuid-" \o ToString(n)

Tasks == 1..MaxTasks

\* a request that has not started: no document, no local variables
IdleTask ==
    [pc |-> "idle", doc |-> NoDoc, sections |-> 0, ref |-> 0, i |-> 0,
     cit |-> NoCitation, numbers |-> <<>>]

\* no generate_document call yet
NoDocument == [pc |-> "idle", calls |-> 0, toc |-> <<>>, sections |-> <<>>, generated |-> <<>>]

Init ==
    /\ registries = [d \in Docs |-> 0]
    /\ heap = <<>>
    /\ uuids = 0
    /\ nOps = 0
    /\ last = Outcome("init", NoDoc, 0, NoCitation, 0, FALSE, "", <<>>)
    /\ hist = <<>>
    /\ tasks = [t \in Tasks |-> IdleTask]
    /\ running = 0
    /\ document = NoDocument

\* one registry answering for every document_id
GetRegistry_Shared(d) == IF d \in Docs THEN registries["A"] ELSE 0

\* self.registries.get(document_id)
GetRegistry(d) == IF d \in Docs THEN registries[d] ELSE 0

\* --------------------------------------------- extract_citation_from_chunk
\* A metadata 'page' value: the key is missing, or holds an int, a str or None.
PageAbsent == [t |-> "absent", i |-> 0, s |-> ""]
PageInt(n) == [t |-> "int", i |-> n, s |-> ""]
PageStr(x) == [t |-> "str", i |-> 0, s |-> x]
PageNone == [t |-> "null", i |-> 0, s |-> ""]
PageValues ==
    {PageAbsent, PageNone, PageInt(0), PageStr("p. 2"), PageStr("n/a")}
        \cup {PageInt(n) : n \in Pages}

\* int(re.search(r'\d+', page_number).group()), -1 standing for the
\* AttributeError of a string without digits
FirstNumber(str) ==
    LET starts == {i \in 1..Len(str) : IsDigit(SubSeq(str, i, i))}
    IN  IF starts = {} THEN -1 ELSE ParseDigits(str, MinOf(starts), 0)

\* page_number as handed to the ChunkCitation constructor
PageOf(pv) ==
    IF pv.t = "absent" THEN IntValue(1)
    ELSE IF pv.t = "str"
         THEN (IF FirstNumber(pv.s) = -1 THEN IntValue(1) ELSE IntValue(FirstNumber(pv.s)))
    ELSE IF pv.t = "int" THEN IntValue(pv.i)
    ELSE NoneValue

\* extract_citation_from_chunk(chunk_content, chunk_metadata, chunk_id):
\* the ChunkCitation, or the ValidationError of its constructor
ExtractCitationFromChunk(content, meta, cid) ==
    LET name == IF meta.source = Absent THEN "Unknown Source" ELSE meta.source
        page == PageOf(meta.page)
    IN  IF ValidPage(page)
        THEN [raised |-> "", cit |-> ChunkCitation(cid, name, page.v, Excerpt(content, 150))]
        ELSE [raised |-> "ValidationError", cit |-> NoCitation]

\* ------------------------------------------------------- CitationTracker
\* create_registry(document_id, session_id): a new registry object replaces
\* whatever the directory held for document_id.
CreateRegistry(d, auto) ==
    /\ Len(heap) < MaxObjs
    /\ heap' = Append(heap, NewRegistry(d, "s", auto))
    /\ hist' = Append(hist, NoHistory)
    /\ registries' = [registries EXCEPT ![d] = Len(heap) + 1]
    /\ nOps' = nOps + 1
    /\ last' = Outcome("create_registry", d, Len(heap) + 1, NoCitation, 0, FALSE, "", <<>>)
    /\ UNCHANGED <<uuids, pipeline>>

\* add_citation_to_document creating the registry it does not find
AddCitationToDocument_AutoCreate(d, c) ==
    /\ nOps' = nOps + 1
    /\ LET o == GetRegistry(d)
       IN  IF o = 0
           THEN LET res == AddCitation(NewRegistry(d, "s", TRUE), c)
                IN  /\ Len(heap) < MaxObjs
                    /\ heap' = Append(heap, res.reg)
                    /\ hist' = Append(hist, Observe(NoHistory, c, res.ret))
                    /\ registries' = [registries EXCEPT ![d] = Len(heap) + 1]
                    /\ last' = Outcome("add_citation", d, Len(heap) + 1, c,
                                       res.ret.citation_number, res.admitted, "", <<>>)
           ELSE LET res == AddCitation(heap[o], c)
                IN  /\ heap' = [heap EXCEPT ![o] = res.reg]
                    /\ hist' = [hist EXCEPT ![o] = Observe(hist[o], c, res.ret)]
                    /\ registries' = registries
                    /\ last' = Outcome("add_citation", d, o, c, res.ret.citation_number,
                                       res.admitted, "", <<>>)
    /\ UNCHANGED <<uuids, pipeline>>

\* add_citation_to_document(document_id, chunk_citation)
AddCitationToDocument(d, c) ==
    /\ nOps' = nOps + 1
    /\ LET o == GetRegistry(d)
       IN  IF o = 0
           THEN /\ last' = Outcome("add_citation", d, 0, c, 0, FALSE, "ValueError", <<>>)
                /\ UNCHANGED <<heap, hist>>
           ELSE LET res == AddCitation(heap[o], c)
                IN  /\ heap' = [heap EXCEPT ![o] = res.reg]
                    /\ hist' = [hist EXCEPT ![o] = Observe(hist[o], c, res.ret)]
                    /\ last' = Outcome("add_citation", d, o, c, res.ret.citation_number,
                                       res.admitted, "", <<>>)
    /\ UNCHANGED <<registries, uuids, pipeline>>

\* track_chunk_citation creating the registry of a document_id it does not find
TrackChunkCitation_CreatesRegistry(content, meta, cid, d) ==
    /\ cid = Absent => uuids < MaxUuid
    /\ nOps' = nOps + 1
    /\ uuids' = IF cid = Absent THEN uuids + 1 ELSE uuids
    /\ LET id == IF cid = Absent THEN Uuid(uuids + 1) ELSE cid
           ex == ExtractCitationFromChunk(content, meta, id)
           o  == IF d = NoDoc THEN 0 ELSE GetRegistry(d)
       IN  IF ex.raised # ""
           THEN /\ last' = Outcome("track_chunk_citation", d, o, NoCitation, 0, FALSE, ex.raised, <<>>)
                /\ UNCHANGED <<heap, hist, registries>>
           ELSE IF d = NoDoc
           THEN /\ last' = Outcome("track_chunk_citation", d, 0, ex.cit, 0, FALSE, "", <<>>)
                /\ UNCHANGED <<heap, hist, registries>>
           ELSE IF o = 0
           THEN LET res == AddCitation(NewRegistry(d, "s", TRUE), ex.cit)
                IN  /\ Len(heap) < MaxObjs
                    /\ heap' = Append(heap, res.reg)
                    /\ hist' = Append(hist, Observe(NoHistory, ex.cit, res.ret))
                    /\ registries' = [registries EXCEPT ![d] = Len(heap) + 1]
                    /\ last' = Outcome("track_chunk_citation", d, Len(heap) + 1, ex.cit,
                                       res.ret.citation_number, res.admitted, "", <<>>)
           ELSE LET res == AddCitation(heap[o], ex.cit)
                IN  /\ heap' = [heap EXCEPT ![o] = res.reg]
                    /\ hist' = [hist EXCEPT ![o] = Observe(hist[o], ex.cit, res.ret)]
                    /\ registries' = registries
                    /\ last' = Outcome("track_chunk_citation", d, o, ex.cit,
                                       res.ret.citation_number, res.admitted, "", <<>>)
    /\ UNCHANGED pipeline

\* track_chunk_citation(chunk_content, chunk_metadata, chunk_id, document_id)
TrackChunkCitation(content, meta, cid, d) ==
    /\ cid = Absent => uuids < MaxUuid
    /\ nOps' = nOps + 1
    /\ uuids' = IF cid = Absent THEN uuids + 1 ELSE uuids
    /\ LET id == IF cid = Absent THEN Uuid(uuids + 1) ELSE cid
           ex == ExtractCitationFromChunk(content, meta, id)
           o  == IF d = NoDoc THEN 0 ELSE GetRegistry(d)
       IN  IF ex.raised # ""
           THEN /\ last' = Outcome("track_chunk_citation", d, o, NoCitation, 0, FALSE, ex.raised, <<>>)
                /\ UNCHANGED <<heap, hist>>
           ELSE IF o = 0
           THEN /\ last' = Outcome("track_chunk_citation", d, 0, ex.cit, 0, FALSE, "", <<>>)
                /\ UNCHANGED <<heap, hist>>
           ELSE LET res == AddCitation(heap[o], ex.cit)
                IN  /\ heap' = [heap EXCEPT ![o] = res.reg]
                    /\ hist' = [hist EXCEPT ![o] = Observe(hist[o], ex.cit, res.ret)]
                    /\ last' = Outcome("track_chunk_citation", d, o, ex.cit,
                                       res.ret.citation_number, res.admitted, "", <<>>)
    /\ UNCHANGED <<registries, pipeline>>

\* a retrieved chunk: {'content': ..., 'metadata': {...}, 'chunk_id': ...}
ChunkData(content, meta, cid) == [content |-> content, metadata |-> meta, chunk_id |-> cid]

RECURSIVE ProcessChunks(_, _, _)
\* the loop of process_generated_content from chunk i on; st carries the
\* registry, its history, the uuid count and the citations collected so far,
\* and the loop ends at the first chunk whose extraction raises
ProcessChunks(st, chunks, i) ==
    IF i > Len(chunks) THEN st
    ELSE LET ch == chunks[i]
             u  == IF ch.chunk_id = Absent THEN st.uuids + 1 ELSE st.uuids
             id == IF ch.chunk_id = Absent THEN Uuid(u) ELSE ch.chunk_id
             ex == ExtractCitationFromChunk(ch.content, ch.metadata, id)
         IN  IF ex.raised # ""
             THEN [st EXCEPT !.uuids = u, !.raised = ex.raised]
             ELSE LET res == AddCitation(st.reg, ex.cit)
                  IN  ProcessChunks([reg |-> res.reg,
                                     hist |-> Observe(st.hist, ex.cit, res.ret),
                                     uuids |-> u,
                                     citations |-> Append(st.citations, res.ret.citation_number),
                                     raised |-> ""],
                                    chunks, i + 1)

\* process_generated_content(content, document_id, retrieved_chunks)
ProcessGeneratedContent(d, chunks) ==
    /\ uuids + Len(chunks) <= MaxUuid
    /\ nOps' = nOps + 1
    /\ LET o == GetRegistry(d)
       IN  IF o = 0
           THEN /\ last' = Outcome("process_generated_content", d, 0, NoCitation, 0, FALSE, "", <<>>)
                /\ UNCHANGED <<heap, hist, uuids>>
           ELSE LET st == ProcessChunks([reg |-> heap[o], hist |-> hist[o], uuids |-> uuids,
                                         citations |-> <<>>, raised |-> ""], chunks, 1)
                IN  /\ heap' = [heap EXCEPT ![o] = st.reg]
                    /\ hist' = [hist EXCEPT ![o] = st.hist]
                    /\ uuids' = st.uuids
                    /\ last' = Outcome("process_generated_content", d, o, NoCitation, 0,
                                       Len(st.reg.inline_citations) > Len(heap[o].inline_citations),
                                       st.raised, st.citations)
    /\ UNCHANGED <<registries, pipeline>>

\* CitationTracker.generate_references_section(document_id) as a function of
\* the directory entry o (0 = none)
GenerateReferences(o) ==
    IF o = 0 \/ ~heap[o].auto_generate_references THEN "" ELSE RegistryReferences(heap[o])

\* an operation that only reads: nothing but the outcome record changes
ReadOnly(op, d, out) ==
    /\ nOps' = nOps + 1
    /\ last' = Outcome(op, d, GetRegistry(d), NoCitation, 0, FALSE, "", out)
    /\ UNCHANGED <<registries, heap, uuids, hist, pipeline>>

\* generate_references_section(document_id)
GenerateReferencesSection(d) ==
    ReadOnly("generate_references_section", d, GenerateReferences(GetRegistry(d)))

\* get_citation_statistics(document_id): {} without a registry
CitationStatistics(o) ==
    IF o = 0 THEN [found |-> FALSE, total_citations |-> 0, unique_sources |-> 0, sources |-> {},
                   citation_style |-> "", auto_references_enabled |-> FALSE]
    ELSE LET names == {heap[o].inline_citations[i].chunk_citation.pdf_name :
                          i \in 1..Len(heap[o].inline_citations)}
         IN  [found |-> TRUE,
              total_citations |-> Len(heap[o].inline_citations),
              unique_sources |-> Cardinality(names),
              sources |-> names,
              citation_style |-> heap[o].citation_style,
              auto_references_enabled |-> heap[o].auto_generate_references]

GetCitationStatistics(d) ==
    ReadOnly("get_citation_statistics", d, CitationStatistics(GetRegistry(d)))

\* _export_bibtex: one @article entry per inline citation, joined by blank lines
ExportBibtex(reg) ==
    JoinWith([k \in 1..Len(reg.inline_citations) |->
                 LET e == reg.inline_citations[k]
                 IN  JoinWith(<<"@article{cite" \o ToString(e.citation_number) \o ",",
                                "  title = {" \o e.chunk_citation.pdf_name \o "},",
                                "  pages = {" \o ToString(e.chunk_citation.page_number) \o "},",
                                "}">>, "\n", 1)],
             "\n\n", 1)

\* _export_ris: one TY..ER record per inline citation, joined by blank lines
ExportRis(reg) ==
    JoinWith([k \in 1..Len(reg.inline_citations) |->
                 LET e == reg.inline_citations[k]
                 IN  JoinWith(<<"TY  - JOUR",
                                "TI  - " \o e.chunk_citation.pdf_name,
                                "SP  - " \o ToString(e.chunk_citation.page_number),
                                "ER  - ">>, "\n", 1)],
             "\n\n", 1)

\* ChunkCitation.model_dump_json(): the fields this model carries
ChunkDumpJson(c) ==
    "{" \o JoinWith(<<JsonString("chunk_id") \o ":" \o JsonString(c.chunk_id),
                      JsonString("pdf_name") \o ":" \o JsonString(c.pdf_name),
                      JsonString("page_number") \o ":" \o ToString(c.page_number),
                      JsonString("section") \o ":null",
                      JsonString("text_excerpt") \o ":" \o JsonString(c.text_excerpt),
                      JsonString("citation_style") \o ":" \o JsonString("APA"),
                      JsonString("authors") \o ":[]">>, ",", 1) \o "}"

\* InlineCitation.model_dump_json()
InlineDumpJson(e) ==
    "{" \o JoinWith(<<JsonString("citation_number") \o ":" \o ToString(e.citation_number),
                      JsonString("chunk_citation") \o ":" \o ChunkDumpJson(e.chunk_citation),
                      JsonString("marker_text") \o ":" \o JsonString(e.marker_text),
                      JsonString("anchor_id") \o ":" \o JsonString(e.anchor_id)>>, ",", 1) \o "}"

\* registry.model_dump_json(): the citations dict in insertion order, which
\* is the order of the entries that brought its keys
RegistryDumpJson(reg) ==
    LET es == reg.inline_citations
    IN  "{" \o JoinWith(<<
            JsonString("document_id") \o ":" \o JsonString(reg.document_id),
            JsonString("session_id") \o ":" \o JsonString(reg.session_id),
            JsonString("citations") \o ":{" \o
                JoinWith([k \in 1..Len(es) |->
                             JsonString(es[k].chunk_citation.chunk_id) \o ":"
                                 \o ChunkDumpJson(reg.citations[es[k].chunk_citation.chunk_id])],
                         ",", 1) \o "}",
            JsonString("inline_citations") \o ":[" \o
                JoinWith([k \in 1..Len(es) |-> InlineDumpJson(es[k])], ",", 1) \o "]",
            JsonString("citation_counter") \o ":" \o ToString(reg.citation_counter),
            JsonString("citation_style") \o ":" \o JsonString(reg.citation_style),
            JsonString("auto_generate_references") \o ":"
                \o (IF reg.auto_generate_references THEN "true" ELSE "false")>>, ",", 1) \o "}"

\* CitationTracker.export_citations(document_id, format); the json branch is
\* registry.model_dump_json(), carried as the dumped object (its text is
\* written out by TrackerExportText)
TrackerExport(o, format) ==
    IF o = 0 THEN [format |-> format, text |-> "", dump |-> <<>>]
    ELSE IF format = "bibtex" THEN [format |-> format, text |-> ExportBibtex(heap[o]), dump |-> <<>>]
    ELSE IF format = "ris" THEN [format |-> format, text |-> ExportRis(heap[o]), dump |-> <<>>]
    ELSE [format |-> "json", text |-> "<json>", dump |-> <<heap[o]>>]

\* CitationTracker.export_citations with the json branch as the text that
\* model_dump_json returns
TrackerExportText(o, format) ==
    IF o # 0 /\ format \notin {"bibtex", "ris"}
    THEN [format |-> "json", text |-> RegistryDumpJson(heap[o]), dump |-> <<heap[o]>>]
    ELSE TrackerExport(o, format)

\* GenerationService.export_citations, the json branch: json.dumps of the
\* document_id and one {citation_number, text, source, page} per entry
ServiceExportJson(reg, d) ==
    "{" \o JsonString("document_id") \o ": " \o JsonString(d) \o ", "
        \o JsonString("citations") \o ": ["
        \o JoinWith([k \in 1..Len(reg.inline_citations) |->
                LET e == reg.inline_citations[k]
                IN  "{" \o JoinWith(<<
                        JsonString("citation_number") \o ": " \o ToString(e.citation_number),
                        JsonString("text") \o ": " \o JsonString(e.chunk_citation.text_excerpt),
                        JsonString("source") \o ": " \o JsonString(e.chunk_citation.pdf_name),
                        JsonString("page") \o ": " \o ToString(e.chunk_citation.page_number)>>,
                        ", ", 1) \o "}"],
            ", ", 1)
        \o "]}"

\* GenerationService.export_citations, the bibtex branch: one @misc entry per
\* inline citation (the citations carry no authors), joined by blank lines
ServiceExportBibtex(reg) ==
    JoinWith([k \in 1..Len(reg.inline_citations) |->
                 LET e == reg.inline_citations[k]
                     x == e.chunk_citation.text_excerpt
                 IN  JoinWith(<<"@misc{cite" \o ToString(e.citation_number) \o ",",
                                "  title={" \o SubSeq(x, 1, IF Len(x) < 50 THEN Len(x) ELSE 50) \o "...},",
                                "  author={Unknown},",
                                "  note={p. " \o ToString(e.chunk_citation.page_number) \o "}",
                                "}">>, "\n", 1)],
             "\n\n", 1)

\* GenerationService.export_citations(document_id, format): None without a
\* registry and for every format but json and bibtex
ServiceExport(o, d, format) ==
    IF o = 0 THEN [format |-> format, none |-> TRUE, text |-> ""]
    ELSE IF format = "json"
         THEN [format |-> format, none |-> FALSE, text |-> ServiceExportJson(heap[o], d)]
    ELSE IF format = "bibtex"
         THEN [format |-> format, none |-> FALSE, text |-> ServiceExportBibtex(heap[o])]
    ELSE [format |-> format, none |-> TRUE, text |-> ""]

\* the mock_data of the export endpoint's except branch
MockExport(d, format) ==
    IF format = "json" THEN "{\"citations\": [], \"document_id\": \"" \o d \o "\"}"
    ELSE IF format = "bibtex"
         THEN "@misc{empty,\n  title={No citations available},\n  note={Document: " \o d \o "}\n}"
    ELSE "TY  - MISC\nTI  - No citations available\nN1  - Document: " \o d \o "\nER  -"

\* GET /citations/documents/{document_id}/export?format=...: 400 for a format
\* outside json, bibtex, ris; the exported data; or, the HTTPException 404 of
\* `if not exported_data` being caught by `except Exception`, the mock data
EndpointExport(o, d, format) ==
    IF format \notin {"json", "bibtex", "ris"}
    THEN [status |-> 400, format |-> format, data |-> "", mock |-> FALSE]
    ELSE LET x == ServiceExport(o, d, format)
         IN  IF x.none \/ x.text = ""
             THEN [status |-> 200, format |-> format, data |-> MockExport(d, format), mock |-> TRUE]
             ELSE [status |-> 200, format |-> format, data |-> x.text, mock |-> FALSE]

\* CitationTracker.export_citations as an operation, its text written out
ExportCitationsText(d, format) ==
    ReadOnly("export_citations", d, TrackerExportText(GetRegistry(d), format))

\* GenerationService.export_citations as an operation
ServiceExportCitations(d, format) ==
    ReadOnly("service_export_citations", d, ServiceExport(GetRegistry(d), d, format))

\* the export endpoint as an operation
EndpointExportCitations(d, format) ==
    ReadOnly("endpoint_export_citations", d, EndpointExport(GetRegistry(d), d, format))

ExportCitations(d, format) ==
    ReadOnly("export_citations", d, TrackerExport(GetRegistry(d), format))

ExportFormats == {"json", "bibtex", "ris", "xml"}

\* the page metadata offered to track_chunk_citation
TrackPages == {PageAbsent, PageInt(0), PageStr("p. 2"), PageStr("n/a")}

\* the chunks offered to process_generated_content
ProcessInputs ==
    {ChunkData(ContentOf(cid), [source |-> "doc1.pdf", page |-> pv], cid) :
        cid \in {"a"}, pv \in {PageInt(0), PageInt(1)}}
    \cup {ChunkData(ContentOf(Absent), [source |-> "doc2.pdf", page |-> PageStr("p. 1")], Absent)}

SeqsUpTo(S, n) == UNION {[1..k -> S] : k \in 0..n}

\* The tracker as its callers drive it: any operation, on any document.
Next ==
    \/ nOps < MaxOps /\ \E d \in Docs, auto \in BOOLEAN : CreateRegistry(d, auto)
    \/ nOps < MaxOps /\ \E d \in Docs, cid \in {"a", "b"}, s \in Sources, p \in {1} :
          AddCitationToDocument(d, ChunkCitation(cid, s, p, Excerpt(ContentOf(cid), 200)))
    \/ nOps < MaxOps /\ \E d \in Docs \cup {NoDoc}, cid \in {"a", Absent},
                           s \in {"doc1.pdf", Absent}, pv \in TrackPages :
          TrackChunkCitation(ContentOf(cid), [source |-> s, page |-> pv], cid, d)
    \/ nOps < MaxOps /\ \E d \in Docs, chunks \in SeqsUpTo(ProcessInputs, MaxChunks) :
          ProcessGeneratedContent(d, chunks)
    \/ nOps < MaxOps /\ \E d \in Docs : GenerateReferencesSection(d)
    \/ nOps < MaxOps /\ \E d \in Docs : GetCitationStatistics(d)
    \/ nOps < MaxOps /\ \E d \in Docs, f \in ExportFormats : ExportCitations(d, f)

Spec == Init /\ [][Next]_vars

\* One document's registry under every add_citation input.
NextRegistry ==
    \/ nOps < MaxAdds /\ \E auto \in BOOLEAN : CreateRegistry("A", auto)
    \/ nOps < MaxAdds /\ \E cid \in ChunkIds, s \in Sources, p \in Pages :
          AddCitationToDocument("A", ChunkCitation(cid, s, p, Excerpt(ContentOf(cid), 200)))

SpecRegistry == Init /\ [][NextRegistry]_vars

\* One document's registry and its exports, through the tracker, the
\* generation service and the endpoint.
NextExport ==
    \/ nOps < MaxAdds /\ CreateRegistry("A", TRUE)
    \/ nOps < MaxAdds /\ \E cid \in {"a", "b"}, s \in Sources, p \in 1..2 :
          AddCitationToDocument("A", ChunkCitation(cid, s, p,
                Excerpt(IF cid = "a" THEN QuotedText ELSE LongText, 200)))
    \/ nOps < MaxAdds /\ \E f \in ExportFormats : ExportCitationsText("A", f)
    \/ nOps < MaxAdds /\ \E f \in ExportFormats : ServiceExportCitations("A", f)
    \/ nOps < MaxAdds /\ \E f \in ExportFormats : EndpointExportCitations("A", f)

SpecExport == Init /\ [][NextExport]_vars

\* ------------------------------------------------ the generation pipeline
\* generate_document and GenerationService.synthesize_section are coroutines
\* of one event loop.  A coroutine keeps the loop from one await to the next:
\* the places where it is suspended, and another one may run, are its start,
\* the awaits of retrieve_relevant_content and of to_thread(llm.invoke), and
\* its end.
Suspended_Anywhere(pc) == TRUE

Suspended(pc) == pc \in {"idle", "retrieve", "llm", "done"}

\* task t may take a step: it holds the loop, or the loop is idle
MayRun(t) == running \in {0, t}

\* a step of a request that returns nothing to look at
Step(r) == Outcome("generate_document", r.doc, r.ref, NoCitation, 0, FALSE, "", <<>>)

\* an add_citation(c) of a request that returned entry e
Added(r, e, admitted) ==
    Outcome("add_citation", r.doc, r.ref, r.cit, e.citation_number, admitted, "", <<>>)

\* task t moves on as record r, its step having outcome o
Goto(t, r, o) ==
    /\ tasks' = [tasks EXCEPT ![t] = r]
    /\ running' = IF Suspended(r.pc) THEN 0 ELSE t
    /\ document' = document
    /\ last' = o

\* `if not citation_registry` as a mutant that always creates
RegistryMissing_Always(ref) == TRUE

\* if not citation_registry:
RegistryMissing(ref) == ref = 0

\* the end of one synthesize_section call: generate_document's loop enters
\* the next section, or goes on to the references
SectionEnd(r) ==
    IF r.sections > 1
    THEN [r EXCEPT !.pc = "get", !.sections = r.sections - 1, !.ref = 0,
                   !.i = 0, !.cit = NoCitation, !.numbers = <<>>]
    ELSE [r EXCEPT !.pc = "references", !.sections = 0, !.ref = 0,
                   !.i = 0, !.cit = NoCitation, !.numbers = <<>>]

\* POST /generate/{session_id}: document_id = f"{session_id}-document", the
\* first section is entered; the requests are numbered in the order they
\* start, and the documents named in the order the requests come to them
StartRequest(t, d, n) ==
    /\ MayRun(t)
    /\ tasks[t].pc = "idle"
    /\ \A u \in 1..(t - 1) : tasks[u].pc # "idle"
    /\ d # "A" => \E u \in Tasks : tasks[u].doc = "A"
    /\ Goto(t, [IdleTask EXCEPT !.pc = "get", !.doc = d, !.sections = n], Step(IdleTask))
    /\ UNCHANGED <<registries, heap, uuids, nOps, hist>>

\* citation_registry = self.citation_tracker.get_registry(document_id)
SectionGetRegistry(t) ==
    /\ MayRun(t)
    /\ tasks[t].pc = "get"
    /\ Goto(t, [tasks[t] EXCEPT !.pc = "check", !.ref = GetRegistry(tasks[t].doc)], Step(tasks[t]))
    /\ UNCHANGED <<registries, heap, uuids, nOps, hist>>

\* if not citation_registry: create_registry(document_id, session_id); then
\* the coroutine awaits the retrieval
SectionCreateRegistry(t) ==
    /\ MayRun(t)
    /\ tasks[t].pc = "check"
    /\ IF RegistryMissing(tasks[t].ref)
       THEN /\ heap' = Append(heap, NewRegistry(tasks[t].doc, "s", TRUE))
            /\ hist' = Append(hist, NoHistory)
            /\ registries' = [registries EXCEPT ![tasks[t].doc] = Len(heap) + 1]
            /\ Goto(t, [tasks[t] EXCEPT !.pc = "retrieve", !.ref = Len(heap) + 1],
                    Outcome("create_registry", tasks[t].doc, Len(heap) + 1, NoCitation,
                            0, FALSE, "", <<>>))
       ELSE /\ Goto(t, [tasks[t] EXCEPT !.pc = "retrieve"], Step(tasks[t]))
            /\ UNCHANGED <<registries, heap, hist>>
    /\ UNCHANGED <<uuids, nOps>>

\* a retrieved document: {'source': ..., 'content': ..., 'metadata': {'page': ...}}
RetrievedDoc(s, text, pv) == [source |-> s, content |-> text, page |-> pv]

\* retrieve_relevant_content returns; without documents the section is the
\* information-gap notice, with documents the coroutine awaits the LLM.  The
\* list is read by the citation loop alone, front to back: the model draws
\* each document, and the end of the list, when the loop comes to it.
RetrieveReturns(t, empty) ==
    /\ MayRun(t)
    /\ tasks[t].pc = "retrieve"
    /\ Goto(t, IF empty THEN SectionEnd(tasks[t])
               ELSE [tasks[t] EXCEPT !.pc = "llm"], Step(tasks[t]))
    /\ UNCHANGED <<registries, heap, uuids, nOps, hist>>

\* the LLM answers; the citation loop starts
LlmReturns(t) ==
    /\ MayRun(t)
    /\ tasks[t].pc = "llm"
    /\ Goto(t, [tasks[t] EXCEPT !.pc = "loop", !.i = 1, !.numbers = <<>>], Step(tasks[t]))
    /\ UNCHANGED <<registries, heap, uuids, nOps, hist>>

\* page_number=metadata.get('page', 1) through the constructor's int
\* validation: an int as it is, a str only when it is all digits
ValidatedPage(pv) ==
    IF pv.t = "absent" THEN IntValue(1)
    ELSE IF pv.t = "int" THEN IntValue(pv.i)
    ELSE IF pv.t = "str" /\ Len(pv.s) > 0 /\ \A k \in 1..Len(pv.s) : IsDigit(SubSeq(pv.s, k, k))
         THEN IntValue(ParseDigits(pv.s, 1, 0))
    ELSE NoneValue

\* the chunk_ids held by a registry or by a request
LiveChunkIds ==
    UNION {DOMAIN heap[o].citations : o \in 1..Len(heap)}
        \cup {tasks[t].cit.chunk_id : t \in Tasks}

\* uuid.uuid4() in the chunk_id of document d: a value that no
\* chunk_id in existence has, the first such one in the model
FreshChunkId(d) ==
    LET Id(k) == d \o "-chunk-" \o Uuid(k)
    IN  Id(MinOf({k \in 1..(Cardinality(LiveChunkIds) + 1) : Id(k) \notin LiveChunkIds}))

\* the end of retrieved_docs
EndOfList == [source |-> Absent, content |-> "", page |-> PageAbsent]

\* for i, doc in enumerate(retrieved_docs): chunk_citation = ChunkCitation(...)
\* with a fresh uuid in the chunk_id; a ValidationError ends the citation
\* processing in the except branch, the end of the list ends the loop.  The
\* list has one document at least and MaxDocs at most.
LoopChunk(t, doc) ==
    /\ MayRun(t)
    /\ tasks[t].pc = "loop"
    /\ doc = EndOfList => tasks[t].i > 1
    /\ doc # EndOfList => tasks[t].i <= MaxDocs
    /\ LET r == tasks[t]
       IN  IF doc = EndOfList
           THEN Goto(t, SectionEnd(r), Step(r))
           ELSE LET page == ValidatedPage(doc.page)
                IN  IF ValidPage(page)
                    THEN Goto(t, [r EXCEPT !.pc = "scan",
                                    !.cit = ChunkCitation(FreshChunkId(r.doc), doc.source,
                                                          page.v, Excerpt(doc.content, 200))],
                              Step(r))
                    ELSE Goto(t, SectionEnd(r),
                              Outcome("generate_document", r.doc, r.ref, NoCitation, 0,
                                      FALSE, "ValidationError", <<>>))
    /\ UNCHANGED <<registries, heap, uuids, nOps, hist>>

\* add_citation, the two duplicate checks: a match returns the entry
AddScan(t) ==
    /\ MayRun(t)
    /\ tasks[t].pc = "scan"
    /\ LET r == tasks[t]
           i == FindBySourceKey(heap[r.ref], r.cit)
           j == FindByChunkId(heap[r.ref], r.cit)
           hit == IF i # 0 THEN i ELSE j
       IN  IF hit # 0
           THEN LET e == heap[r.ref].inline_citations[hit]
                IN  Goto(t, [r EXCEPT !.pc = "loop", !.i = r.i + 1,
                                      !.numbers = Append(r.numbers, e.citation_number)],
                         Added(r, e, FALSE))
           ELSE Goto(t, [r EXCEPT !.pc = "count"], Step(r))
    /\ UNCHANGED <<registries, heap, uuids, nOps, hist>>

\* add_citation: self.citation_counter += 1
AddCount(t) ==
    /\ MayRun(t)
    /\ tasks[t].pc = "count"
    /\ heap' = [heap EXCEPT ![tasks[t].ref].citation_counter = @ + 1]
    /\ Goto(t, [tasks[t] EXCEPT !.pc = "store"], Step(tasks[t]))
    /\ UNCHANGED <<registries, uuids, nOps, hist>>

\* add_citation: self.citations[chunk_citation.chunk_id] = chunk_citation
AddStore(t) ==
    /\ MayRun(t)
    /\ tasks[t].pc = "store"
    /\ heap' = [heap EXCEPT ![tasks[t].ref].citations = (tasks[t].cit.chunk_id :> tasks[t].cit) @@ @]
    /\ Goto(t, [tasks[t] EXCEPT !.pc = "append"], Step(tasks[t]))
    /\ UNCHANGED <<registries, uuids, nOps, hist>>

\* add_citation: the InlineCitation numbered self.citation_counter is
\* appended and returned
AddAppend(t) ==
    /\ MayRun(t)
    /\ tasks[t].pc = "append"
    /\ LET r == tasks[t]
           e == InlineCitation(heap[r.ref].citation_counter, r.cit)
       IN  /\ heap' = [heap EXCEPT ![r.ref].inline_citations = Append(@, e)]
           /\ Goto(t, [r EXCEPT !.pc = "loop", !.i = r.i + 1,
                                !.numbers = Append(r.numbers, e.citation_number)],
                   Added(r, e, TRUE))
    /\ UNCHANGED <<registries, uuids, nOps, hist>>

\* generate_document after its last section:
\* references_content = generation_service.generate_references_section(document_id)
RequestReferences(t) ==
    /\ MayRun(t)
    /\ tasks[t].pc = "references"
    /\ Goto(t, [tasks[t] EXCEPT !.pc = "done"],
            Outcome("generate_references_section", tasks[t].doc, GetRegistry(tasks[t].doc),
                    NoCitation, 0, FALSE, "", GenerateReferences(GetRegistry(tasks[t].doc))))
    /\ UNCHANGED <<registries, heap, uuids, nOps, hist>>

\* GET /citations/documents/{id}/...: a handler that reads the registry runs
\* when the loop gives it the turn
EndpointRead(d, op, out) ==
    /\ running = 0
    /\ last' = Outcome(op, d, GetRegistry(d), NoCitation, 0, FALSE, "", out)
    /\ UNCHANGED <<registries, heap, uuids, nOps, hist, pipeline>>

\* the documents a retrieval may return
RetrievedInputs ==
    {RetrievedDoc("doc1.pdf", ShortText, PageAbsent), RetrievedDoc("doc2.pdf", LongText, PageStr("1")),
     RetrievedDoc("doc1.pdf", ShortText, PageInt(0))}

NextPipeline ==
    \/ \E t \in Tasks, d \in Docs, n \in 1..MaxSections : StartRequest(t, d, n)
    \/ \E t \in Tasks : SectionGetRegistry(t)
    \/ \E t \in Tasks : SectionCreateRegistry(t)
    \/ \E t \in Tasks, empty \in BOOLEAN : RetrieveReturns(t, empty)
    \/ \E t \in Tasks : LlmReturns(t)
    \/ \E t \in Tasks, doc \in RetrievedInputs \cup {EndOfList} : LoopChunk(t, doc)
    \/ \E t \in Tasks : AddScan(t)
    \/ \E t \in Tasks : AddCount(t)
    \/ \E t \in Tasks : AddStore(t)
    \/ \E t \in Tasks : AddAppend(t)
    \/ \E t \in Tasks : RequestReferences(t)
    \/ \E d \in Docs : EndpointRead(d, "export_citations", TrackerExport(GetRegistry(d), "json"))
    \/ \E d \in Docs : EndpointRead(d, "get_citation_statistics", CitationStatistics(GetRegistry(d)))
    \/ \E d \in Docs : EndpointRead(d, "generate_references_section", GenerateReferences(GetRegistry(d)))

SpecPipeline == Init /\ [][NextPipeline]_vars

\* ------------------------------------------- the pipeline's marker injection
Whitespace == {" ", "\n", "\t"}

RECURSIVE RStripLen(_, _)
\* the length of str[:n].rstrip()
RStripLen(str, n) ==
    IF n >= 1 /\ SubSeq(str, n, n) \in Whitespace THEN RStripLen(str, n - 1) ELSE n

RECURSIVE LStripStart(_, _)
\* the position at which str[i:].lstrip() starts
LStripStart(str, i) ==
    IF i <= Len(str) /\ SubSeq(str, i, i) \in Whitespace THEN LStripStart(str, i + 1) ELSE i

RStrip(str) == SubSeq(str, 1, RStripLen(str, Len(str)))
Strip(str) == SubSeq(str, LStripStart(str, 1), RStripLen(str, Len(str)))

RECURSIVE BlankLineFrom(_, _)
\* the first position from i on at which "\n\n" starts, 0 for none
BlankLineFrom(str, i) ==
    LET j == FirstOf(str, i, {"\n"})
    IN  IF j = 0 THEN 0
        ELSE IF Ch(str, j + 1) = "\n" THEN j
        ELSE BlankLineFrom(str, j + 1)

RECURSIVE SplitParagraphsFrom(_, _)
\* content[i:].split('\n\n')
SplitParagraphsFrom(str, i) ==
    LET j == BlankLineFrom(str, i)
    IN  IF j = 0 THEN <<SubSeq(str, i, Len(str))>>
        ELSE <<SubSeq(str, i, j - 1)>> \o SplitParagraphsFrom(str, j + 2)

SplitParagraphs(str) == SplitParagraphsFrom(str, 1)

\* if paragraph.strip() and len(paragraph.strip()) > 50
Qualifies(paragraph) == Len(Strip(paragraph)) > 50

\* the paragraph with citation_ref before its final period, or at its end
WithMarker(paragraph, ref) ==
    LET r == RStrip(paragraph)
    IN  IF Len(r) >= 1 /\ SubSeq(r, Len(r), Len(r)) = "."
        THEN SubSeq(r, 1, Len(r) - 1) \o ref \o "."
        ELSE r \o ref

\* f"[{num}]" of every number, joined by spaces
Markers(numbers) == JoinWith([k \in 1..Len(numbers) |-> "[" \o ToString(numbers[k]) \o "]"], " ", 1)

\* one turn of `for i, paragraph in enumerate(paragraphs)`, i counted from 1:
\* a qualifying paragraph gets new_citation_numbers[i], or, being the last
\* paragraph of the content, new_citation_numbers[1:]
InjectParagraph(paragraphs, numbers, i) ==
    IF ~Qualifies(paragraphs[i]) THEN paragraphs[i]
    ELSE IF i <= Len(numbers)
         THEN WithMarker(paragraphs[i], " [" \o ToString(numbers[i]) \o "]")
    ELSE IF i = Len(paragraphs) /\ Len(numbers) > 1
         THEN WithMarker(paragraphs[i], " " \o Markers(SubSeq(numbers, 2, Len(numbers))))
    ELSE paragraphs[i]

\* synthesize_section, `if new_citation_numbers:` ... content = '\n\n'.join(...)
InjectIntoContent(content, numbers) ==
    IF numbers = <<>> THEN content
    ELSE LET ps == SplitParagraphs(content)
         IN  JoinWith([i \in 1..Len(ps) |-> InjectParagraph(ps, numbers, i)], "\n\n", 1)

\* paragraphs an LLM answer is made of: two that qualify, one of them
\* without a final period and with trailing blanks, and a heading
LongParagraph == "The drug substance remained within specification at all pull points."
OpenParagraph == "Assay and related substances were tested at every time point  "
Heading == "## Stability"
ParagraphInputs == {LongParagraph, OpenParagraph, Heading}

\* the answers: 1..MaxParagraphs paragraphs separated by blank lines
InjectContents ==
    {JoinWith(ps, "\n\n", 1) : ps \in SeqsUpTo(ParagraphInputs, MaxParagraphs) \ {<<>>}}

\* new_citation_numbers: the numbers 1..k in order, or two numbers out of order
InjectNumbers == {[i \in 1..k |-> i] : k \in 0..MaxCitations} \cup {<<3, 1>>}

\* an LLM answer and the citation numbers collected for its section
InitInject ==
    /\ registries = [d \in Docs |-> 0]
    /\ heap = <<>>
    /\ uuids = 0
    /\ nOps = 0
    /\ \E c \in InjectContents, ns \in InjectNumbers :
          last = Outcome("llm_content", NoDoc, 0, NoCitation, 0, FALSE, "",
                         [content |-> c, numbers |-> ns, result |-> ""])
    /\ hist = <<>>
    /\ tasks = [t \in Tasks |-> IdleTask]
    /\ running = 0
    /\ document = NoDocument

\* the markers are injected into the answer
InjectCitations ==
    /\ last.op = "llm_content"
    /\ nOps' = nOps + 1
    /\ last' = Outcome("inject_citations", NoDoc, 0, NoCitation, 0, FALSE, "",
                       [last.out EXCEPT !.result = InjectIntoContent(last.out.content, last.out.numbers)])
    /\ UNCHANGED <<registries, heap, uuids, hist, pipeline>>

NextInject == InjectCitations

SpecInject == InitInject /\ [][NextInject]_vars

\* Two documents, each with its registry, and the operations that add to one.
NextTwoDocuments ==
    \/ nOps < MaxAdds /\ \E d \in Docs : CreateRegistry(d, TRUE)
    \/ nOps < MaxAdds /\ \E d \in Docs, cid \in {"a", "b"}, s \in Sources :
          AddCitationToDocument(d, ChunkCitation(cid, s, 1, Excerpt(ContentOf(cid), 200)))
    \/ nOps < MaxAdds /\ \E d \in Docs, pv \in {PageAbsent, PageInt(0)} :
          TrackChunkCitation(ContentOf("a"), [source |-> "doc1.pdf", page |-> pv], "a", d)
    \/ nOps < MaxAdds /\ \E d \in Docs, chunks \in SeqsUpTo(ProcessInputs, MaxChunks) :
          ProcessGeneratedContent(d, chunks)

SpecTwoDocuments == Init /\ [][NextTwoDocuments]_vars

\* --------------------------------------------------- create_inline_citation
\* source_metadata.get('pdf_name', source_metadata.get('source', 'unknown.pdf'))
InlineSourceName(meta) ==
    IF meta.pdf_name # Absent THEN meta.pdf_name
    ELSE IF meta.source # Absent THEN meta.source
    ELSE "unknown.pdf"

\* source_metadata.get('page', 1), an int or missing
InlinePage(meta) == IF meta.page.t = "absent" THEN IntValue(1) ELSE IntValue(meta.page.i)

\* DocumentCitationRegistry.create_inline_citation: the ChunkCitation is
\* built first (and its page validated); a chunk_id that is a key of the map
\* and has an entry returns that entry; otherwise the map gets the key and
\* an entry with the caller's citation_number is appended, the counter
\* staying as it is
CreateInlineCitation(reg, cid, number, text, meta) ==
    LET page == InlinePage(meta)
        c == ChunkCitation(cid, InlineSourceName(meta), page.v, Excerpt(text, 200))
        j == FindByChunkId(reg, c)
    IN  IF ~ValidPage(page)
        THEN [reg |-> reg, ret |-> InlineCitation(0, NoCitation), admitted |-> FALSE,
              raised |-> "ValidationError", cit |-> NoCitation]
        ELSE IF j # 0
        THEN [reg |-> reg, ret |-> reg.inline_citations[j], admitted |-> FALSE,
              raised |-> "", cit |-> c]
        ELSE [reg |-> [reg EXCEPT !.citations = (cid :> c) @@ reg.citations,
                                  !.inline_citations =
                                      Append(reg.inline_citations, InlineCitation(number, c))],
              ret |-> InlineCitation(number, c), admitted |-> TRUE, raised |-> "", cit |-> c]

\* registry.create_inline_citation(...) on the registry of document d
CreateInlineCitationIn(d, cid, number, text, meta) ==
    /\ GetRegistry(d) # 0
    /\ nOps' = nOps + 1
    /\ LET o == GetRegistry(d)
           res == CreateInlineCitation(heap[o], cid, number, text, meta)
       IN  /\ heap' = [heap EXCEPT ![o] = res.reg]
           /\ last' = Outcome("create_inline_citation", d, o, res.cit,
                              res.ret.citation_number, res.admitted, res.raised, <<>>)
    /\ UNCHANGED <<registries, uuids, hist, pipeline>>

\* the numbers and metadata offered to create_inline_citation
InlineNumbers == 1..2
InlineMetas ==
    {[pdf_name |-> n, source |-> s, page |-> pv] :
        n \in {"doc1.pdf", Absent}, s \in {"doc2.pdf", Absent}, pv \in {PageAbsent, PageInt(0), PageInt(2)}}

\* One registry and all three of its mutators.
NextMutators ==
    \/ nOps < MaxOps /\ CreateRegistry("A", TRUE)
    \/ nOps < MaxOps /\ \E cid \in {"a", "b"}, s \in Sources, p \in 1..2 :
          AddCitationToDocument("A", ChunkCitation(cid, s, p, Excerpt(ContentOf(cid), 200)))
    \/ nOps < MaxOps /\ \E cid \in {"a", Absent}, s \in {"doc1.pdf", Absent}, pv \in TrackPages :
          TrackChunkCitation(ContentOf(cid), [source |-> s, page |-> pv], cid, "A")
    \/ nOps < MaxOps /\ \E cid \in {"a", "b"}, n \in InlineNumbers, meta \in InlineMetas :
          CreateInlineCitationIn("A", cid, n, ContentOf(cid), meta)

SpecMutators == Init /\ [][NextMutators]_vars

\* ------------------------------------------- the document-citation endpoints
\* the first position from i on at which pat starts in str, 0 for none
RECURSIVE FindSub(_, _, _)
FindSub(str, pat, i) ==
    LET j == FirstOf(str, i, {SubSeq(pat, 1, 1)})
    IN  IF j = 0 THEN 0
        ELSE IF SubSeq(str, j, j + Len(pat) - 1) = pat THEN j
        ELSE FindSub(str, pat, j + 1)

\* str[i:].replace(pat, new)
RECURSIVE ReplaceFrom(_, _, _, _)
ReplaceFrom(str, pat, new, i) ==
    LET j == FindSub(str, pat, i)
    IN  IF j = 0 THEN SubSeq(str, i, Len(str))
        ELSE SubSeq(str, i, j - 1) \o new \o ReplaceFrom(str, pat, new, j + Len(pat))

\* GET /citations/documents/{document_id}: the registry's citations, or,
\* the HTTPException 404 of `if not registry` being caught by
\* `except Exception`, the mock response
EndpointDocumentCitations(o, d) ==
    IF o = 0
    THEN [status |-> 200, mock |-> TRUE, session_id |-> "mock-session", citations |-> <<>>,
          citation_count |-> 0]
    ELSE [status |-> 200, mock |-> FALSE, session_id |-> heap[o].session_id,
          citations |-> heap[o].inline_citations,
          citation_count |-> Len(heap[o].inline_citations)]

\* GenerationService.get_citation_statistics: None without a registry;
\* sources is the list of the entries' pdf_names
ServiceStatistics(o) ==
    IF o = 0 THEN [none |-> TRUE, total_citations |-> 0, unique_sources |-> 0, sources |-> <<>>]
    ELSE LET names == [k \in 1..Len(heap[o].inline_citations) |->
                          heap[o].inline_citations[k].chunk_citation.pdf_name]
         IN  [none |-> FALSE, total_citations |-> Len(names),
              unique_sources |-> Cardinality(Range(names)), sources |-> names]

\* GET .../statistics: the statistics, or the mock statistics
EndpointStatistics(o, d) ==
    LET stats == ServiceStatistics(o)
    IN  IF stats.none
        THEN [status |-> 200, mock |-> TRUE, total_citations |-> 0, unique_sources |-> 0,
              sources |-> <<>>]
        ELSE [status |-> 200, mock |-> FALSE, total_citations |-> stats.total_citations,
              unique_sources |-> stats.unique_sources, sources |-> stats.sources]

\* GET .../references: markdown and html of the references, or, for an
\* empty text, the mock section
EndpointReferences(o, d) ==
    LET references == GenerateReferences(o)
    IN  IF references = ""
        THEN [status |-> 200, mock |-> TRUE,
              references_markdown |-> "## References\n\nNo citations available for this document.",
              references_html |-> "<h2>References</h2><br>No citations available for this document."]
        ELSE [status |-> 200, mock |-> FALSE,
              references_markdown |-> references,
              references_html |-> ReplaceFrom(ReplaceFrom(references, "## References\n",
                                                          "<h2>References</h2>\n", 1),
                                              "\n", "<br>\n", 1)]

\* the references list get_structured_references builds: one record per
\* citation number, by ascending number, the first entry of a number
\* giving its citation; formatted for a citation without authors, journal
\* and date
StructuredReferences(reg) ==
    LET es == reg.inline_citations
        nums == {es[k].citation_number : k \in 1..Len(es)}
        First(n) == es[MinOf({k \in 1..Len(es) : es[k].citation_number = n})].chunk_citation
        Rank(n) == Cardinality({x \in nums : x <= n})
    IN  [r \in 1..Cardinality(nums) |->
            LET n == CHOOSE x \in nums : Rank(x) = r
            IN  [citation_number |-> n,
                 reference_id |-> "ref-" \o ToString(n),
                 formatted_reference |-> "Anonymous. " \o First(n).pdf_name
                     \o (IF First(n).page_number # 0
                         THEN ", p. " \o ToString(First(n).page_number) ELSE ""),
                 pdf_name |-> First(n).pdf_name,
                 page_number |-> First(n).page_number]]

\* GET .../references/structured: the empty answer without a registry or
\* without entries; otherwise the list is built and the return statement
\* reads citation_registry.config, which a DocumentCitationRegistry does not
\* have: the AttributeError is caught and the empty answer, with its error
\* text, is returned; built is what the handler had in hand
EndpointStructuredReferences(o, d) ==
    IF o = 0 \/ Len(heap[o].inline_citations) = 0
    THEN [status |-> 200, references |-> <<>>, total_count |-> 0, error |-> "", built |-> 0]
    ELSE [status |-> 200, references |-> <<>>, total_count |-> 0,
          error |-> "'DocumentCitationRegistry' object has no attribute 'config'",
          built |-> Len(StructuredReferences(heap[o]))]

GetDocumentCitations(d) ==
    ReadOnly("endpoint_document_citations", d, EndpointDocumentCitations(GetRegistry(d), d))

GetStatistics(d) ==
    ReadOnly("endpoint_statistics", d, EndpointStatistics(GetRegistry(d), d))

GetReferencesSection(d) ==
    ReadOnly("endpoint_references", d, EndpointReferences(GetRegistry(d), d))

GetStructuredReferences(d) ==
    ReadOnly("endpoint_structured_references", d, EndpointStructuredReferences(GetRegistry(d), d))

\* One document with a registry, one without, and the GET handlers.
NextEndpoints ==
    \/ nOps < MaxAdds /\ CreateRegistry("A", TRUE)
    \/ nOps < MaxAdds /\ \E cid \in {"a", "b"}, s \in Sources, p \in 1..2 :
          AddCitationToDocument("A", ChunkCitation(cid, s, p, ShortText))
    \/ nOps < MaxAdds /\ \E d \in Docs : GetDocumentCitations(d)
    \/ nOps < MaxAdds /\ \E d \in Docs : GetStatistics(d)
    \/ nOps < MaxAdds /\ \E d \in Docs : GetReferencesSection(d)
    \/ nOps < MaxAdds /\ \E d \in Docs, f \in {"json", "bibtex", "ris"} : EndpointExportCitations(d, f)
    \/ nOps < MaxAdds /\ \E d \in Docs : GetStructuredReferences(d)

SpecEndpoints == Init /\ [][NextEndpoints]_vars

\* ------------------------------------------------- inject_inline_citations
\* [m.end() for m in re.finditer(r'[.!?]\s+', content)] from position i on: a
\* match is one of . ! ? and the whole run of blanks after it
RECURSIVE SentenceEndingsFrom(_, _)
SentenceEndingsFrom(str, i) ==
    LET j == FirstOf(str, i, {".", "!", "?"})
    IN  IF j = 0 THEN <<>>
        ELSE IF Ch(str, j + 1) \in Whitespace
             THEN <<LStripStart(str, j + 1) - 1>> \o SentenceEndingsFrom(str, LStripStart(str, j + 1))
        ELSE SentenceEndingsFrom(str, j + 1)

\* _detect_citation_points(content, num_citations), num_citations >= 1
DetectCitationPoints(content, n) ==
    LET ends == SentenceEndingsFrom(content, 1)
        step == Len(ends) \div n
    IN  IF ends = <<>> THEN [i \in 1..n |-> (i * Len(content)) \div n]
        ELSE IF Len(ends) <= n THEN ends
        ELSE [i \in 1..n |-> ends[(i - 1) * step + 1]]

\* _generate_hover_content for a citation without authors, section and date,
\* the three pictographs written as words
HoverContent(c) ==
    LET authors == ExtractAuthorsFromFilename(c.pdf_name)
        title == ExtractTitleFromFilename(c.pdf_name)
        shown == SubSeq(authors, 1, IF Len(authors) < 2 THEN Len(authors) ELSE 2)
    IN  JoinWith((IF Len(authors) > 0
                  THEN <<"(author) " \o JoinWith(shown, ", ", 1)
                           \o (IF Len(authors) > 2 THEN " et al." ELSE "")>>
                  ELSE <<>>)
                 \o (IF title # c.pdf_name THEN <<"(title) " \o title>> ELSE <<>>)
                 \o <<"(page) Page " \o ToString(c.page_number)>>,
                 " - ", 1)

\* hover_content.replace('"', '&quot;')
RECURSIVE EscapeQuotes(_, _)
EscapeQuotes(str, i) ==
    LET j == FirstOf(str, i, {"\""})
    IN  IF j = 0 THEN SubSeq(str, i, Len(str))
        ELSE SubSeq(str, i, j - 1) \o "&quot;" \o EscapeQuotes(str, j + 1)

\* _create_citation_html(citation)
CreateCitationHtml(e) ==
    "<span class=\"citation-wrapper\"><sup><a href=\"#ref-" \o ToString(e.citation_number)
        \o "\" id=\"cite-" \o ToString(e.citation_number)
        \o "\" class=\"citation-link\" data-tooltip=\"" \o EscapeQuotes(HoverContent(e.chunk_citation), 1)
        \o "\" title=\"" \o HoverContent(e.chunk_citation) \o "\">"
        \o ToString(e.citation_number) \o "</a></sup></span>"

\* list(zip(citations, injection_points))
Zip(citations, points) ==
    [k \in 1..(IF Len(citations) < Len(points) THEN Len(citations) ELSE Len(points)) |->
        [citation |-> citations[k], point |-> points[k]]]

RECURSIVE SortDescending(_)
\* list.sort(key=lambda x: x[1], reverse=True): the pairs by descending
\* point, pairs of one point in the order of the list
SortDescending(pairs) ==
    IF pairs = <<>> THEN <<>>
    ELSE LET k == MinOf({i \in 1..Len(pairs) : \A j \in 1..Len(pairs) : pairs[j].point <= pairs[i].point})
         IN  <<pairs[k]>> \o SortDescending(SubSeq(pairs, 1, k - 1) \o SubSeq(pairs, k + 1, Len(pairs)))

\* the pairs injected in the order of the list
InsertionOrder_Unsorted(pairs) == pairs

\* citation_injections.sort(..., reverse=True)  # Inject from end to start
InsertionOrder(pairs) == SortDescending(pairs)

\* the index a slice bound stands for in a text of length n
SliceIndex(point, n) ==
    IF point < 0 THEN (IF n + point < 0 THEN 0 ELSE n + point)
    ELSE IF point > n THEN n ELSE point

\* modified_content[:point] + citation_html + modified_content[point:]
InsertAt(text, point, html) ==
    LET at == SliceIndex(point, Len(text))
    IN  SubSeq(text, 1, at) \o html \o SubSeq(text, at + 1, Len(text))

RECURSIVE InsertAll(_, _, _)
\* for citation, point in citation_injections: ..., from pair k on
InsertAll(text, pairs, k) ==
    IF k > Len(pairs) THEN text
    ELSE InsertAll(InsertAt(text, pairs[k].point, CreateCitationHtml(pairs[k].citation)), pairs, k + 1)

\* injection_points: None, or a list
NoPoints == [given |-> FALSE, at |-> <<>>]
GivenPoints(at) == [given |-> TRUE, at |-> at]

\* the injection_points the markers go to
PointsUsed(content, citations, points) ==
    IF points.given THEN points.at ELSE DetectCitationPoints(content, Len(citations))

\* inject_inline_citations(content, citations, injection_points) under a
\* config whose show_inline_citations is show
InjectInlineCitations(content, citations, points, show) ==
    IF citations = <<>> \/ ~show THEN content
    ELSE InsertAll(content, InsertionOrder(Zip(citations, PointsUsed(content, citations, points))), 1)

\* texts with sentence ends (one with a run of blanks), one without, none
InlineTexts ==
    {"Assay passed. Water ok!  Stable? Yes.", "One. Two.", "no sentence end", ""}

\* the InlineCitations of a registry, and the lists handed to the injector:
\* its first n entries, or one entry twice
InlineEntry(n) == InlineCitation(n, ChunkCitation("c" \o ToString(n), "doc1.pdf", n, ShortText))
InlineLists ==
    {[k \in 1..n |-> InlineEntry(k)] : n \in 0..MaxCitations} \cup {<<InlineEntry(1), InlineEntry(1)>>}

\* offsets of a text a caller points at
Offsets(text) == {0, Len(text) \div 2, Len(text)}

\* a call of inject_inline_citations
InitInline ==
    /\ registries = [d \in Docs |-> 0]
    /\ heap = <<>>
    /\ uuids = 0
    /\ nOps = 0
    /\ \E text \in InlineTexts, cs \in InlineLists, show \in BOOLEAN :
          \E points \in {NoPoints} \cup {GivenPoints(at) : at \in SeqsUpTo(Offsets(text), MaxCitations)} :
             last = Outcome("inline_input", NoDoc, 0, NoCitation, 0, FALSE, "",
                            [content |-> text, citations |-> cs, points |-> points,
                             show |-> show, result |-> ""])
    /\ hist = <<>>
    /\ tasks = [t \in Tasks |-> IdleTask]
    /\ running = 0
    /\ document = NoDocument

InjectInline ==
    /\ last.op = "inline_input"
    /\ nOps' = nOps + 1
    /\ last' = Outcome("inject_inline_citations", NoDoc, 0, NoCitation, 0, FALSE, "",
                       [last.out EXCEPT !.result = InjectInlineCitations(last.out.content,
                                    last.out.citations, last.out.points, last.out.show)])
    /\ UNCHANGED <<registries, heap, uuids, hist, pipeline>>

NextInline == InjectInline

SpecInline == InitInline /\ [][NextInline]_vars

\* ------------------------------------------------- one generate_document call
\* A call has its own GenerationService, whose CitationTracker shares
\* _global_registries with every other: the registry of the document_id,
\* f"{session_id}-document", outlives the call and is found by the next call
\* for the session.
DocumentId == "A"

\* titles of template sections: one that is "references" once trimmed and
\* lowercased, one that is not
TocTitles == {"Stability", " References "}

\* LLM answers as _remove_references_from_content leaves them: texts it
\* returns as they are (no reference heading, no trailing list, no blanks
\* at the ends)
LlmAnswers ==
    {LongParagraph,
     LongParagraph \o "\n\n" \o LongParagraph,
     Heading \o "\n\n" \o LongParagraph}

\* str.lower()
LowerStr(str) == JoinWith([k \in 1..Len(str) |-> ToLower(SubSeq(str, k, k))], "", 1)

\* a section of all_sections that the loop has not come to
TodoSection == [pc |-> "todo", admitted |-> {}]

\* a GeneratedSection of generated_sections: its title, and its content if it
\* is the auto-generated section; content and source_count of a synthesized
\* section are in the outcome of the step that returned it
GeneratedSection(title, text, auto) == [title |-> title, text |-> text, auto |-> auto]

\* uuid.uuid4() in a chunk_id: a value no key of the registry has
NewChunkId(reg, d) ==
    LET Id(k) == d \o "-chunk-" \o Uuid(k)
    IN  Id(MinOf({k \in 1..(Cardinality(DOMAIN reg.citations) + 1) : Id(k) \notin DOMAIN reg.citations}))

RECURSIVE CiteDocs(_, _, _, _, _)
\* for i, doc in enumerate(retrieved_docs): ChunkCitation(...), add_citation,
\* new_citation_numbers.append(...), from document i on; the constructor's
\* ValidationError ends the loop where it is
CiteDocs(reg, d, docs, i, numbers) ==
    IF i > Len(docs) THEN [reg |-> reg, numbers |-> numbers, failed |-> FALSE]
    ELSE LET page == ValidatedPage(docs[i].page)
         IN  IF ~ValidPage(page) THEN [reg |-> reg, numbers |-> numbers, failed |-> TRUE]
             ELSE LET c == ChunkCitation(NewChunkId(reg, d), docs[i].source, page.v,
                                         Excerpt(docs[i].content, 200))
                      res == AddCitation(reg, c)
                  IN  CiteDocs(res.reg, d, docs, i + 1, Append(numbers, res.ret.citation_number))

\* generate_document: flatten_toc(template.toc), the loop is entered; a call
\* starts when the one before it has returned
StartDocument(toc) ==
    /\ document.pc \in {"idle", "done"}
    /\ document.calls < MaxCalls
    /\ document' = [pc |-> "sections", calls |-> document.calls + 1, toc |-> toc,
                    sections |-> [k \in 1..Len(toc) |-> TodoSection], generated |-> <<>>]
    /\ last' = Outcome("generate_document", DocumentId, 0, NoCitation, 0, FALSE, "", <<>>)
    /\ UNCHANGED <<registries, heap, uuids, nOps, hist, tasks, running>>

\* the sections started as tasks of one gather, in no order
SectionMayStart_Unordered(k) == document.sections[k].pc = "todo"

\* for i, toc_item in enumerate(all_sections): section = await
\* synthesize_section(...): section k is entered when the calls for the
\* sections before it have returned
SectionMayStart(k) ==
    /\ document.sections[k].pc = "todo"
    /\ \A j \in 1..(k - 1) : document.sections[j].pc = "done"

\* synthesize_section up to its first await: get_registry, create_registry
\* if there is none
SectionStart(k) ==
    /\ document.pc = "sections"
    /\ k \in 1..Len(document.toc)
    /\ SectionMayStart(k)
    /\ document' = [document EXCEPT !.sections[k].pc = "retrieve"]
    /\ IF RegistryMissing(GetRegistry(DocumentId))
       THEN /\ heap' = Append(heap, NewRegistry(DocumentId, "s", TRUE))
            /\ hist' = Append(hist, NoHistory)
            /\ registries' = [registries EXCEPT ![DocumentId] = Len(heap) + 1]
            /\ last' = Outcome("create_registry", DocumentId, Len(heap) + 1, NoCitation,
                               0, FALSE, "", <<>>)
       ELSE /\ last' = Outcome("get_registry", DocumentId, GetRegistry(DocumentId), NoCitation,
                               0, FALSE, "", <<>>)
            /\ UNCHANGED <<registries, heap, hist>>
    /\ UNCHANGED <<uuids, nOps, tasks, running>>

\* what a synthesize_section call returned
SectionOutcome(k, raised, answer, content, count, numbers, admitted) ==
    Outcome("synthesize_section", DocumentId, GetRegistry(DocumentId), NoCitation, 0,
            admitted # {}, raised,
            [section |-> k, answer |-> answer, content |-> content, source_count |-> count,
             numbers |-> numbers, admitted |-> admitted])

GapNotice == "## Information Gap Notice"

\* retrieve_relevant_content returns: without documents the section is the
\* information-gap notice, with documents the call awaits the LLM.  The list
\* is read by the citation loop alone: the model draws it when the loop runs.
SectionRetrieved(k, empty) ==
    /\ document.pc = "sections"
    /\ k \in 1..Len(document.toc)
    /\ document.sections[k].pc = "retrieve"
    /\ IF empty
       THEN /\ document' = [document EXCEPT
                               !.sections[k].pc = "done",
                               !.generated = Append(@, GeneratedSection(document.toc[k], "", FALSE))]
            /\ last' = SectionOutcome(k, "", "", GapNotice, 0, <<>>, {})
       ELSE /\ document' = [document EXCEPT !.sections[k].pc = "llm"]
            /\ last' = Outcome("retrieve_relevant_content", DocumentId, GetRegistry(DocumentId),
                               NoCitation, 0, FALSE, "", <<>>)
    /\ UNCHANGED <<registries, heap, uuids, nOps, hist, tasks, running>>

\* the except branch putting in the markers of the citations it has
SectionContent_MarksOnFailure(answer, res) == InjectIntoContent(answer, res.numbers)

\* the content after the citation processing: with the markers, or, from
\* the except branch, as the LLM gave it
SectionContent(answer, res) ==
    IF res.failed THEN answer ELSE InjectIntoContent(answer, res.numbers)

\* the LLM answers: the citation loop over retrieved_docs, the markers put
\* into the content, or, if the loop raised, the except branch that keeps
\* the content as it was; the GeneratedSection is returned
SectionLlmReturned(k, answer, docs) ==
    /\ document.pc = "sections"
    /\ k \in 1..Len(document.toc)
    /\ document.sections[k].pc = "llm"
    /\ docs # <<>>
    /\ LET o == GetRegistry(DocumentId)
           res == CiteDocs(heap[o], DocumentId, docs, 1, <<>>)
           admitted == {res.reg.inline_citations[n].citation_number :
                           n \in (Len(heap[o].inline_citations) + 1)..Len(res.reg.inline_citations)}
           content == SectionContent(answer, res)
       IN  /\ heap' = [heap EXCEPT ![o] = res.reg]
           /\ document' = [document EXCEPT
                              !.sections[k] = [pc |-> "done", admitted |-> admitted],
                              !.generated = Append(@, GeneratedSection(document.toc[k], "", FALSE))]
           /\ last' = SectionOutcome(k, IF res.failed THEN "ValidationError" ELSE "", answer, content,
                                     Len(docs), res.numbers, admitted)
    /\ UNCHANGED <<registries, uuids, nOps, hist, tasks, running>>

\* `if references_content and not existing_references_section` without its
\* first half
AppendsReferences_AlsoEmpty(content, existing) == ~existing

\* if references_content and not existing_references_section:
AppendsReferences(content, existing) == content # "" /\ ~existing

\* any(section.title.lower().strip() == "references" for section in generated_sections)
ExistingReferencesSection(generated) ==
    \E n \in 1..Len(generated) : Strip(LowerStr(generated[n].title)) = "references"

\* generate_document after its loop: the references of the document, the
\* References section appended or not, the document returned
DocumentReferences ==
    /\ document.pc = "sections"
    /\ \A k \in 1..Len(document.toc) : document.sections[k].pc = "done"
    /\ LET content == GenerateReferences(GetRegistry(DocumentId))
           existing == ExistingReferencesSection(document.generated)
       IN  /\ document' = [document EXCEPT
                              !.pc = "done",
                              !.generated = IF AppendsReferences(content, existing)
                                            THEN Append(@, GeneratedSection("References", content, TRUE))
                                            ELSE @]
           /\ last' = Outcome("generate_references_section", DocumentId, GetRegistry(DocumentId),
                              NoCitation, 0, FALSE, "", content)
    /\ UNCHANGED <<registries, heap, uuids, nOps, hist, tasks, running>>

NextDocument ==
    \/ \E toc \in SeqsUpTo(TocTitles, MaxToc) : StartDocument(toc)
    \/ \E k \in 1..MaxToc : SectionStart(k)
    \/ \E k \in 1..MaxToc, empty \in BOOLEAN : SectionRetrieved(k, empty)
    \/ \E k \in 1..MaxToc, answer \in LlmAnswers, docs \in SeqsUpTo(RetrievedInputs, MaxDocs) :
          SectionLlmReturned(k, answer, docs)
    \/ DocumentReferences

SpecDocument == Init /\ [][NextDocument]_vars

\* ------------------------------------------ callers and the objects they hold
\* the position, in the registry after the call, of the InlineCitation that
\* the add_citation call recorded in l returned: the appended entry, or the
\* entry one of the two lookups found
ReturnedPosition(reg, l) ==
    IF l.admitted THEN Len(reg.inline_citations)
    ELSE IF FindBySourceKey(reg, l.cit) # 0 THEN FindBySourceKey(reg, l.cit)
    ELSE FindByChunkId(reg, l.cit)

\* the fields a caller assigns to; the models do not validate assignments
CallerFields == {"citation_number", "page_number", "pdf_name"}
CallerValues(f) == IF f = "pdf_name" THEN Sources ELSE 1..2

\* entry e after `e.citation_number = v`, or after `c.<f> = v` on the
\* ChunkCitation object it refers to
AssignEntry(e, f, v) ==
    IF f = "citation_number" THEN [e EXCEPT !.citation_number = v]
    ELSE [e EXCEPT !.chunk_citation[f] = v]

\* the registry after `c.<f> = v` on the ChunkCitation of entry k: the object
\* is the one the entry and the citations dict both refer to
AssignCitation(reg, k, f, v) ==
    LET cid == reg.inline_citations[k].chunk_citation.chunk_id
    IN  [reg EXCEPT !.inline_citations[k] = AssignEntry(@, f, v),
                    !.citations = [x \in DOMAIN @ |-> IF x = cid THEN [@[x] EXCEPT ![f] = v] ELSE @[x]]]

\* the caller of add_citation_to_document assigns to a field of the
\* InlineCitation it got back, which is the object in inline_citations
CallerModifiesReturned(f, v) ==
    /\ last.op = "add_citation" /\ last.raised = ""
    /\ nOps' = nOps + 1
    /\ LET o == last.obj
           k == ReturnedPosition(heap[o], last)
       IN  /\ heap' = [heap EXCEPT ![o] = IF f = "citation_number"
                                          THEN [@ EXCEPT !.inline_citations[k] = AssignEntry(@, f, v)]
                                          ELSE AssignCitation(@, k, f, v)]
           /\ last' = Outcome("caller_modifies_returned", last.doc, o, last.cit, last.ret,
                              last.admitted, "", <<f, v>>)
    /\ UNCHANGED <<registries, uuids, hist, pipeline>>

\* the caller assigns to a field of the ChunkCitation it passed in: the
\* registry kept that object if the call admitted it, and nothing of it if not
CallerModifiesPassed(f, v) ==
    /\ last.op = "add_citation" /\ last.raised = ""
    /\ f # "citation_number"
    /\ nOps' = nOps + 1
    /\ LET o == last.obj
       IN  /\ heap' = IF last.admitted
                      THEN [heap EXCEPT ![o] = AssignCitation(@, Len(@.inline_citations), f, v)]
                      ELSE heap
           /\ last' = Outcome("caller_modifies_passed", last.doc, o, last.cit, last.ret,
                              last.admitted, "", <<f, v>>)
    /\ UNCHANGED <<registries, uuids, hist, pipeline>>

\* get_registry(d).inline_citations[k].<...> = v: the registry handed out is
\* the object in self.registries
CallerModifiesRegistry(d, k, f, v) ==
    /\ GetRegistry(d) # 0
    /\ k \in 1..Len(heap[GetRegistry(d)].inline_citations)
    /\ nOps' = nOps + 1
    /\ LET o == GetRegistry(d)
       IN  /\ heap' = [heap EXCEPT ![o] = IF f = "citation_number"
                                          THEN [@ EXCEPT !.inline_citations[k] = AssignEntry(@, f, v)]
                                          ELSE AssignCitation(@, k, f, v)]
           /\ last' = Outcome("caller_modifies_registry", d, o, NoCitation, 0, FALSE, "", <<f, v>>)
    /\ UNCHANGED <<registries, uuids, hist, pipeline>>

\* the citations callers submit
CallerCitations ==
    {ChunkCitation(cid, s, p, ShortText) : cid \in {"a", "b"}, s \in Sources, p \in 1..2}

NextCaller ==
    \/ nOps < MaxAdds /\ CreateRegistry("A", TRUE)
    \/ nOps < MaxAdds /\ \E c \in CallerCitations : AddCitationToDocument("A", c)
    \/ nOps < MaxAdds /\ \E f \in CallerFields : \E v \in CallerValues(f) : CallerModifiesReturned(f, v)
    \/ nOps < MaxAdds /\ \E f \in CallerFields : \E v \in CallerValues(f) : CallerModifiesPassed(f, v)
    \/ nOps < MaxAdds /\ \E k \in 1..MaxAdds, f \in CallerFields :
          \E v \in CallerValues(f) : CallerModifiesRegistry("A", k, f, v)

SpecCaller == Init /\ [][NextCaller]_vars

\* ------------------------------------------------- the filename heuristics
\* tokens a filename is made of: names, the et-al words, a year in
\* 1900..2030, a four-digit number outside it, a capitalised word
FilenameTokens == {"smith", "jones", "et", "al", "and", "2019", "1850", "DRUG"}

EtAlExample == "smith-jones-et-al-2019-drug-stability-analysis.pdf"

\* the names handed to the heuristics
Filenames ==
    {JoinWith(ts, "-", 1) \o ".pdf" : ts \in SeqsUpTo(FilenameTokens, MaxTokens) \ {<<>>}}
        \cup {EtAlExample, "smith-et-al-2019-drug-stability-analysis.pdf", "report.pdf"}

\* a pdf_name on its way to the reference formatter
InitFilename ==
    /\ registries = [d \in Docs |-> 0]
    /\ heap = <<>>
    /\ uuids = 0
    /\ nOps = 0
    /\ \E n \in Filenames :
          last = Outcome("pdf_name", NoDoc, 0, NoCitation, 0, FALSE, "",
                         [name |-> n, authors |-> <<>>, title |-> ""])
    /\ hist = <<>>
    /\ tasks = [t \in Tasks |-> IdleTask]
    /\ running = 0
    /\ document = NoDocument

\* _format_reference's two calls on citation.pdf_name
ExtractFromFilename ==
    /\ last.op = "pdf_name"
    /\ nOps' = nOps + 1
    /\ last' = Outcome("extract_from_filename", NoDoc, 0, NoCitation, 0, FALSE, "",
                       [name |-> last.out.name,
                        authors |-> ExtractAuthorsFromFilename(last.out.name),
                        title |-> ExtractTitleFromFilename(last.out.name)])
    /\ UNCHANGED <<registries, heap, uuids, hist, pipeline>>

NextFilename == ExtractFromFilename

SpecFilename == InitFilename /\ [][NextFilename]_vars

\* ------------------------------------------------------------------ claims
Objects == 1..Len(heap)
Entries(o) == heap[o].inline_citations
EntryKey(e) == <<e.chunk_citation.pdf_name, e.chunk_citation.page_number>>
IsPrefix(s, t) == Len(s) <= Len(t) /\ SubSeq(t, 1, Len(s)) = s
StartsWith(str, pre) == Len(pre) <= Len(str) /\ SubSeq(str, 1, Len(pre)) = pre

\* C1: on one registry, any two add_citation calls whose ChunkCitations have
\* the same (pdf_name, page_number) returned the same citation_number,
\* whatever their chunk_ids and excerpts and whatever was called in between.
C1_DedupBySourcePage ==
    \A o \in Objects : \A r1, r2 \in hist[o].returns :
        r1.key = r2.key => r1.num = r2.num

\* two calls with different chunk_ids (and so different excerpts) on the
\* same source and page, and a call for another source as well
C1_Witness ==
    \E o \in Objects : \E r1, r2, r3 \in hist[o].returns :
        /\ r1.key = r2.key /\ r1.cid = "a" /\ r2.cid = "b"
        /\ r3.key # r1.key

\* C2: the citation numbers of inline_citations are 1, 2, ..., n in list
\* order after any sequence of add_citation calls, duplicates included.
C2_NumberingAscending ==
    \A o \in Objects : \A i \in 1..Len(Entries(o)) : Entries(o)[i].citation_number = i

\* several entries, and at least one call that was answered as a duplicate
C2_Witness ==
    \E o \in Objects :
        /\ Len(Entries(o)) >= 2
        /\ Cardinality(hist[o].returns) > Len(Entries(o))

\* C3 as stated: every later add_citation call with a chunk_id returns what
\* the first call with that chunk_id returned, whatever source and page it has.
C3_ChunkIdAlwaysSameEntry ==
    \A o \in Objects : \A r1, r2 \in hist[o].returns :
        r1.cid = r2.cid => r1.num = r2.num

\* C3, amended: an add_citation call whose chunk_id is already a key of the
\* chunk_id map admits no entry; it returns the entry admitted under that
\* chunk_id unless its source and page match a different existing entry,
\* which is then returned.
C3_ChunkIdFallback ==
    [][(last'.op = "add_citation" /\ last'.obj # 0
            /\ last'.cit.chunk_id \in DOMAIN heap[last'.obj].citations)
        => LET o == last'.obj
               c == last'.cit
               own == {i \in 1..Len(Entries(o)) :
                          Entries(o)[i].chunk_citation.chunk_id = c.chunk_id}
               other == {i \in 1..Len(Entries(o)) :
                            /\ EntryKey(Entries(o)[i]) = <<c.pdf_name, c.page_number>>
                            /\ i \notin own}
           IN  /\ heap'[o] = heap[o]
               /\ ~last'.admitted
               /\ \E i \in (IF other = {} THEN own ELSE other) :
                     last'.ret = Entries(o)[i].citation_number]_vars

\* a call answered through the chunk_id fallback: same chunk_id as an entry,
\* another source and page than that entry, no entry of its own
C3_Witness ==
    /\ last.op = "add_citation" /\ last.obj # 0 /\ ~last.admitted
    /\ \E i \in 1..Len(Entries(last.obj)) :
          /\ Entries(last.obj)[i].chunk_citation.chunk_id = last.cit.chunk_id
          /\ Entries(last.obj)[i].citation_number = last.ret
          /\ EntryKey(Entries(last.obj)[i]) # <<last.cit.pdf_name, last.cit.page_number>>

\* C4: add_citation, track_chunk_citation, process_generated_content,
\* reference generation, statistics and export never replace a registry in
\* the directory and only ever extend inline_citations at its end: every
\* earlier inline_citations is a prefix of every later one.
C4_AppendOnly ==
    [][last'.op # "create_registry"
        => /\ registries' = registries
           /\ Len(heap') = Len(heap)
           /\ \A o \in Objects : IsPrefix(heap[o].inline_citations, heap'[o].inline_citations)]_vars

\* process_generated_content that admitted an entry into a non-empty registry
\* and then failed on a later chunk
C4_Witness ==
    /\ last.op = "process_generated_content"
    /\ last.raised = "ValidationError"
    /\ last.admitted
    /\ Len(Entries(last.obj)) >= 2

\* C7 as stated: create_registry for a document_id whose registry holds
\* citations keeps every one of them, with its number, in the registry that
\* get_registry yields afterwards.
C7_CreateRegistryKeepsCitations ==
    [][(last'.op = "create_registry" /\ registries[last'.doc] # 0)
        => IsPrefix(heap[registries[last'.doc]].inline_citations,
                    heap'[registries'[last'.doc]].inline_citations)]_vars

\* C9: while the add_citation calls on a registry had pairwise distinct
\* chunk_ids, the registry holds one entry per distinct (source, page)
\* submitted, and entry k is the k-th distinct pair in first-submission order.
C9_OneEntryPerPairInOrder ==
    \A o \in Objects :
        ~hist[o].cidReused
        => /\ Len(Entries(o)) = Len(hist[o].submitted)
           /\ \A k \in 1..Len(Entries(o)) :
                 /\ Entries(o)[k].citation_number = k
                 /\ EntryKey(Entries(o)[k]) = hist[o].submitted[k]

\* the example: (a, doc1.pdf, 3), (b, doc1.pdf, 3), (c, doc2.pdf, 1)
C9_Witness ==
    \E o \in Objects :
        /\ hist[o].returns = {[cid |-> "a", key |-> <<"doc1.pdf", 3>>, num |-> 1],
                              [cid |-> "b", key |-> <<"doc1.pdf", 3>>, num |-> 1],
                              [cid |-> "c", key |-> <<"doc2.pdf", 1>>, num |-> 2]}
        /\ ~hist[o].cidReused
        /\ Len(Entries(o)) = 2
        /\ EntryKey(Entries(o)[1]) = <<"doc1.pdf", 3>>
        /\ EntryKey(Entries(o)[2]) = <<"doc2.pdf", 1>>

\* C10: CitationTracker.generate_references_section returns "" exactly when
\* the document has no registry, or auto_generate_references is false, or the
\* registry holds no citation; any other result starts with the heading.
C10_ReferencesEmptyIff ==
    last.op = "generate_references_section"
    => /\ last.out = "" <=> \/ last.obj = 0
                            \/ ~heap[last.obj].auto_generate_references
                            \/ Len(Entries(last.obj)) = 0
       /\ last.out # "" => StartsWith(last.out, ReferencesHeading)

\* a reference section with heading for a registry of two citations
C10_Witness ==
    /\ last.op = "generate_references_section"
    /\ last.obj # 0
    /\ Len(Entries(last.obj)) = 2
    /\ StartsWith(last.out, ReferencesHeading)

\* C5: under every interleaving of the requests' add_citation calls on one
\* registry, no two entries share a source and page or a number, and a call
\* returns the number of the one entry that holds its source and page: calls
\* for the same new (source, page) are given one number, calls for different
\* sources different numbers.
C5_AddCitationAtomic ==
    /\ \A o \in Objects : \A i, j \in 1..Len(Entries(o)) :
          i # j => /\ EntryKey(Entries(o)[i]) # EntryKey(Entries(o)[j])
                   /\ Entries(o)[i].citation_number # Entries(o)[j].citation_number
    /\ (last.op = "add_citation" /\ last.obj # 0)
       => \E i \in 1..Len(Entries(last.obj)) :
             /\ Entries(last.obj)[i].citation_number = last.ret
             /\ EntryKey(Entries(last.obj)[i]) = <<last.cit.pdf_name, last.cit.page_number>>

\* the first call of a request's section is given the number of an entry of
\* a registry of two entries, which another request of the document, now at
\* its end, has worked on
C5_Witness ==
    /\ last.op = "add_citation" /\ ~last.admitted /\ last.obj # 0
    /\ Len(Entries(last.obj)) = 2
    /\ \E t, u \in Tasks :
          /\ t # u
          /\ tasks[t].pc = "loop" /\ tasks[t].ref = last.obj
          /\ tasks[t].numbers = <<last.ret>>
          /\ tasks[u].pc = "done" /\ tasks[u].doc = tasks[t].doc

\* the registry as a reader may find it between two add_citation calls
Settled(reg) ==
    /\ reg.citation_counter = Len(reg.inline_citations)
    /\ DOMAIN reg.citations =
          {reg.inline_citations[i].chunk_citation.chunk_id : i \in 1..Len(reg.inline_citations)}

\* C6: what get_citation_statistics, generate_references_section and
\* export_citations read while requests are in flight is never a registry
\* whose counter or chunk_id map is ahead of inline_citations.
C6_ReadsSeeSettledRegistry ==
    (last.op \in {"export_citations", "get_citation_statistics", "generate_references_section"}
        /\ last.obj # 0)
    => /\ Settled(heap[last.obj])
       /\ last.op = "export_citations" => Settled(last.out.dump[1])

\* an export of a non-empty registry while a request on it awaits its LLM
C6_Witness ==
    /\ last.op = "export_citations" /\ last.obj # 0
    /\ Len(Entries(last.obj)) >= 1
    /\ \E t \in Tasks : tasks[t].pc = "llm" /\ tasks[t].ref = last.obj

\* the registry objects ever created for document d
CreatedFor(h, d) == {o \in 1..Len(h) : h[o].document_id = d}

\* C8: in the generation pipeline create_registry runs at most once per
\* document_id, a directory entry is never replaced, every section works on
\* the registry the directory holds, and that registry keeps its entries and
\* goes on numbering from its counter.
C8_RegistryCreatedOnce ==
    [][/\ \A d \in Docs : Cardinality(CreatedFor(heap', d)) <= 1
       /\ \A d \in Docs : registries[d] # 0 => registries'[d] = registries[d]
       /\ \A t \in Tasks :
             tasks'[t].pc \in {"retrieve", "llm", "loop", "scan", "count", "store", "append"}
             => tasks'[t].ref = registries'[tasks'[t].doc]
       /\ \A o \in Objects :
             /\ IsPrefix(heap[o].inline_citations, heap'[o].inline_citations)
             /\ \A k \in 1..Len(heap'[o].inline_citations) :
                   heap'[o].inline_citations[k].citation_number = k]_vars

\* a second request for a document whose first request is done: it admits
\* entry 2 into the registry the first request created
C8_Witness ==
    /\ last.op = "add_citation" /\ last.admitted /\ last.ret = 2
    /\ \E t1, t2 \in Tasks :
          /\ tasks[t1].pc = "done" /\ tasks[t1].doc = last.doc
          /\ tasks[t2].pc = "loop" /\ tasks[t2].doc = last.doc
          /\ tasks[t2].ref = last.obj /\ tasks[t2].i = 2
          /\ registries[last.doc] = last.obj
          /\ Cardinality(CreatedFor(heap, last.doc)) = 1

\* ------------------------------------------------- reading a result back
RECURSIVE LinesFrom(_, _)
\* the lines of a text from position i on
LinesFrom(str, i) ==
    LET j == FirstOf(str, i, {"\n"})
    IN  IF j = 0 THEN <<SubSeq(str, i, Len(str))>>
        ELSE <<SubSeq(str, i, j - 1)>> \o LinesFrom(str, j + 1)

\* the lines of a text that are not empty
TextLines(str) == SelectSeq(LinesFrom(str, 1), LAMBDA l : l # "")

EndsWith(str, suf) == Len(suf) <= Len(str) /\ SubSeq(str, Len(str) - Len(suf) + 1, Len(str)) = suf
Contains(str, sub) == \E i \in 1..(Len(str) - Len(sub) + 1) : SubSeq(str, i, i + Len(sub) - 1) = sub

C12_MissingRegistryIsAnError ==
    [][last'.op = "add_citation"
       => IF GetRegistry(last'.doc) = 0
          THEN /\ last'.raised = "ValueError"
               /\ registries' = registries
               /\ heap' = heap
          ELSE last'.raised = ""]_vars

\* the call fails for one document while the other document's registry
\* holds a citation
C12_Witness ==
    /\ last.op = "add_citation" /\ last.raised = "ValueError"
    /\ registries[last.doc] = 0
    /\ \E o \in Objects : Len(Entries(o)) >= 1

\* C13: only create_registry changes the registry directory; an operation
\* on a document_id without a registry changes no registry either; and
\* track_chunk_citation changes a registry only when it is given the
\* document_id of an existing registry, that registry and no other, while in
\* every other case a call that extracts a citation just returns it.
C13_OnlyCreateChangesDirectory ==
    [][/\ last'.op # "create_registry" => registries' = registries
       /\ (last'.op # "create_registry" /\ GetRegistry(last'.doc) = 0) => heap' = heap
       /\ last'.op = "track_chunk_citation"
          => IF last'.doc # NoDoc /\ GetRegistry(last'.doc) # 0
             THEN \A o \in Objects : o # GetRegistry(last'.doc) => heap'[o] = heap[o]
             ELSE /\ heap' = heap
                  /\ last'.raised = "" => last'.cit # NoCitation /\ ~last'.admitted]_vars

\* track_chunk_citation for a document without a registry, and without a
\* document_id, returns the citation while another registry exists
C13_Witness ==
    /\ last.op = "track_chunk_citation" /\ last.raised = ""
    /\ GetRegistry(last.doc) = 0
    /\ last.cit.pdf_name = "doc1.pdf"
    /\ Len(heap) >= 1

\* C14: extract_citation_from_chunk, as track_chunk_citation and
\* process_generated_content call it, never raises: whatever the metadata
\* holds, the caller gets a ChunkCitation with page_number >= 1.
C14_ExtractAlwaysSucceeds ==
    /\ last.op = "track_chunk_citation" => (last.raised = "" /\ last.cit.page_number >= 1)
    /\ last.op = "process_generated_content" => last.raised = ""

\* ------------------------------------------------------------------ exports
\* (citation_number, source, page) of the entries of a registry
Triples(reg) ==
    [k \in 1..Len(reg.inline_citations) |->
        <<reg.inline_citations[k].citation_number,
          reg.inline_citations[k].chunk_citation.pdf_name,
          reg.inline_citations[k].chunk_citation.page_number>>]

\* the same of the records of a re-parsed GenerationService json export
ServiceRecords(text) ==
    LET rs == Member(JsonLoads(text), "citations").items
    IN  [k \in 1..Len(rs) |->
            <<Member(rs[k], "citation_number").n, Member(rs[k], "source").s, Member(rs[k], "page").n>>]

\* the same of the records of a re-parsed registry dump
DumpRecords(text) ==
    LET rs == Member(JsonLoads(text), "inline_citations").items
    IN  [k \in 1..Len(rs) |->
            <<Member(rs[k], "citation_number").n,
              Member(Member(rs[k], "chunk_citation"), "pdf_name").s,
              Member(Member(rs[k], "chunk_citation"), "page_number").n>>]

\* C15: the JSON export of a registry with N citations, by the generation
\* service (also behind the endpoint) and by the tracker, re-parsed, has
\* exactly N records whose (citation_number, source, page) are those of
\* inline_citations, in order.
C15_JsonRoundTrip ==
    /\ (last.op = "service_export_citations" /\ last.obj # 0 /\ last.out.format = "json")
       => ServiceRecords(last.out.text) = Triples(heap[last.obj])
    /\ (last.op = "endpoint_export_citations" /\ last.obj # 0 /\ last.out.format = "json")
       => ServiceRecords(last.out.data) = Triples(heap[last.obj])
    /\ (last.op = "export_citations" /\ last.obj # 0 /\ last.out.format = "json")
       => DumpRecords(last.out.text) = Triples(heap[last.obj])

\* the service's JSON export of two citations, one of them with quotes and
\* a backslash in its excerpt
C15_Witness ==
    /\ last.op = "service_export_citations" /\ last.obj # 0 /\ last.out.format = "json"
    /\ Len(Entries(last.obj)) = 2
    /\ \E k \in 1..2 : Entries(last.obj)[k].chunk_citation.text_excerpt = QuotedText
    /\ Len(ServiceRecords(last.out.text)) = 2

\* the lines of a text that start with pre
LinesStarting(text, pre) == SelectSeq(TextLines(text), LAMBDA l : StartsWith(l, pre))

\* C16: through the generation service and its endpoint, json, bibtex and
\* ris each export a registry of N >= 1 citations as N records in entry
\* order: N parsed records, N entries keyed cite<number>, N records closed
\* by ER; none of them answers with nothing or with a placeholder.
C16_EveryFormatCoversRegistry ==
    (/\ last.op \in {"service_export_citations", "endpoint_export_citations"}
     /\ last.obj # 0
     /\ Len(Entries(last.obj)) >= 1
     /\ last.out.format \in {"json", "bibtex", "ris"})
    => LET n == Len(Entries(last.obj))
           svc == last.op = "service_export_citations"
           text == IF svc THEN last.out.text ELSE last.out.data
       IN  /\ IF svc THEN ~last.out.none ELSE ~last.out.mock
           /\ last.out.format = "json" => Len(ServiceRecords(text)) = n
           /\ last.out.format = "bibtex"
              => /\ Len(LinesStarting(text, "@")) = n
                 /\ \A k \in 1..n :
                       Contains(LinesStarting(text, "@")[k],
                                "{cite" \o ToString(Entries(last.obj)[k].citation_number) \o ",")
           /\ last.out.format = "ris" => Len(LinesStarting(text, "ER  -")) = n

\* ---------------------------------------------------------------- injection
\* the positions of the qualifying paragraphs, in order
QualifyingPositions(ps) ==
    LET F[i \in 0..Len(ps)] ==
            IF i = 0 THEN <<>>
            ELSE IF Qualifies(ps[i]) THEN Append(F[i - 1], i) ELSE F[i - 1]
    IN  F[Len(ps)]

\* C17: when a section has more qualifying paragraphs than citations, the
\* k-th qualifying paragraph carries the marker of the k-th citation, and
\* every qualifying paragraph after the last citation is left as it was.
C17_InjectionBoundary ==
    last.op = "inject_citations"
    => LET ps == SplitParagraphs(last.out.content)
           rs == SplitParagraphs(last.out.result)
           ns == last.out.numbers
           q == QualifyingPositions(ps)
       IN  (Len(ns) >= 1 /\ Len(q) > Len(ns))
           => /\ Len(rs) = Len(ps)
              /\ \A k \in 1..Len(q) :
                    rs[q[k]] = IF k <= Len(ns)
                               THEN WithMarker(ps[q[k]], " [" \o ToString(ns[k]) \o "]")
                               ELSE ps[q[k]]

\* C18: when a section has fewer qualifying paragraphs than citations, and
\* one at least, the marker of every citation is in the text, the k-th
\* qualifying paragraph but the last carries the k-th citation alone, and no
\* other paragraph is changed.
C18_NoCitationWithoutMarker ==
    last.op = "inject_citations"
    => LET ps == SplitParagraphs(last.out.content)
           rs == SplitParagraphs(last.out.result)
           ns == last.out.numbers
           q == QualifyingPositions(ps)
       IN  (Len(q) >= 1 /\ Len(q) < Len(ns))
           => /\ Len(rs) = Len(ps)
              /\ \A k \in 1..Len(ns) : Contains(last.out.result, "[" \o ToString(ns[k]) \o "]")
              /\ \A i \in 1..Len(ps) : ~Qualifies(ps[i]) => rs[i] = ps[i]
              /\ \A k \in 1..(Len(q) - 1) :
                    rs[q[k]] = WithMarker(ps[q[k]], " [" \o ToString(ns[k]) \o "]")

\* ------------------------------------------------------ filename heuristics
\* "et" followed by "al" among the tokens before the year, after a name
HasEtAl(pre) == \E k \in 2..(Len(pre) - 1) : pre[k] = "et" /\ pre[k + 1] = "al"

\* C19: a filename with et-al before its year has its first token,
\* title-cased, as only author; without et-al the authors are the pre-year
\* tokens but et/al/and, title-cased, at most 3; the title is the tokens after
\* the year, title-cased; a filename without year token has its first token as
\* author and all its tokens as title. The et-al example gives ["Smith"] and
\* "Drug Stability Analysis", "report.pdf" gives ["Report"] and "Report".
C19_FilenameHeuristic ==
    last.op = "extract_from_filename"
    => LET parts == Split(StripExtension(last.out.name))
           y == YearIndex(parts)
           pre == SubSeq(parts, 1, y - 1)
           titled == [k \in 1..Len(parts) |-> Title(parts[k])]
           kept == KeepAuthors(pre, 1)
       IN  /\ last.out.name = EtAlExample
                => /\ last.out.authors = <<"Smith">>
                   /\ last.out.title = "Drug Stability Analysis"
           /\ last.out.name = "report.pdf"
                => /\ last.out.authors = <<"Report">>
                   /\ last.out.title = "Report"
           /\ y = 0 => /\ last.out.authors = <<titled[1]>>
                       /\ last.out.title = JoinWith(titled, " ", 1)
           /\ (Len(parts) >= 3 /\ y > 1 /\ HasEtAl(pre)) => last.out.authors = <<titled[1]>>
           /\ (Len(parts) >= 3 /\ y > 1 /\ ~HasEtAl(pre))
                => last.out.authors = SubSeq(kept, 1, IF Len(kept) < 3 THEN Len(kept) ELSE 3)
           /\ (Len(parts) >= 3 /\ y > 0 /\ y < Len(parts))
                => last.out.title = JoinWith(titled, " ", y + 1)

\* ----------------------------------------------------------------- ownership
\* number, source and page of every entry of a registry, in order
StoredKeys(reg) ==
    [k \in 1..Len(reg.inline_citations) |->
        <<reg.inline_citations[k].citation_number,
          reg.inline_citations[k].chunk_citation.pdf_name,
          reg.inline_citations[k].chunk_citation.page_number>>]

\* what a later add_citation(c) would answer: the number, and whether new
DedupOutcome(reg, c) ==
    <<AddCitation(reg, c).ret.citation_number, AddCitation(reg, c).admitted>>

\* C20: a caller assigning to an InlineCitation it was handed, or to the
\* ChunkCitation it passed in, changes neither the number, source or page of
\* any entry stored in a registry nor the outcome of a later dedup lookup.
C20_RegistryOwnsEntries ==
    [][last'.op \in {"caller_modifies_returned", "caller_modifies_passed", "caller_modifies_registry"}
       => \A o \in Objects :
             /\ StoredKeys(heap'[o]) = StoredKeys(heap[o])
             /\ \A c \in CallerCitations : DedupOutcome(heap'[o], c) = DedupOutcome(heap[o], c)]_vars

\* ---------------------------------------------------------------- duplicates
\* C21: an add_citation call answered with an existing entry (found by source
\* and page, or by chunk_id) changes nothing in any registry: counter,
\* chunk_id map and inline_citations are as before, and the number returned
\* is that of an entry that was already there, which the call matches.
C21_DuplicateHasNoEffect ==
    [][(last'.op = "add_citation" /\ last'.raised = "" /\ ~last'.admitted)
        => /\ heap' = heap
           /\ registries' = registries
           /\ \E k \in 1..Len(heap[last'.obj].inline_citations) :
                 LET e == heap[last'.obj].inline_citations[k]
                 IN  /\ e.citation_number = last'.ret
                     /\ \/ EntryKey(e) = <<last'.cit.pdf_name, last'.cit.page_number>>
                        \/ e.chunk_citation.chunk_id = last'.cit.chunk_id]_vars

\* a duplicate by source and page whose chunk_id and excerpt are new: the
\* entry still carries the first chunk's, and the new chunk_id is no key
C21_Witness ==
    /\ last.op = "add_citation" /\ last.raised = "" /\ ~last.admitted
    /\ last.cit.chunk_id \notin DOMAIN heap[last.obj].citations
    /\ \E k \in 1..Len(Entries(last.obj)) :
          /\ Entries(last.obj)[k].citation_number = last.ret
          /\ Entries(last.obj)[k].chunk_citation.text_excerpt # last.cit.text_excerpt
          /\ Entries(last.obj)[k].chunk_citation.chunk_id # last.cit.chunk_id
    /\ Len(Entries(last.obj)) >= 2

\* ------------------------------------------------------- document assembly
\* C22: the sections of one generate_document call are generated one after
\* another: a section is entered only when every section before it has
\* returned, every number first assigned in a section is smaller than every
\* number first assigned in a later one, and the references are computed
\* when the last section has returned.
C22_SectionsOneAfterAnother ==
    /\ \A j, k \in 1..Len(document.sections) :
          j < k => /\ document.sections[k].pc # "todo" => document.sections[j].pc = "done"
                   /\ \A a \in document.sections[j].admitted, b \in document.sections[k].admitted : a < b
    /\ document.pc = "done" => \A k \in 1..Len(document.sections) : document.sections[k].pc = "done"

\* a document of two sections that both admitted citations
C22_Witness ==
    /\ document.pc = "done"
    /\ \E j, k \in 1..Len(document.sections) :
          j < k /\ document.sections[j].admitted # {} /\ document.sections[k].admitted # {}

\* the auto-generated sections of the document
AutoSections == {n \in 1..Len(document.generated) : document.generated[n].auto}

\* C23: the document returned has an auto-generated References section
\* exactly when the reference text of the registry is not empty and no
\* generated section is titled "references" (trimmed, whatever the case);
\* that section is the last one, it is the only one, and it is never empty.
C23_ReferencesAppendedIffNeeded ==
    document.pc = "done"
    => LET o == GetRegistry(DocumentId)
           synthesized == {n \in 1..Len(document.generated) : ~document.generated[n].auto}
           titled == \E n \in synthesized : Strip(LowerStr(document.generated[n].title)) = "references"
       IN  /\ AutoSections # {} <=> (GenerateReferences(o) # "" /\ ~titled)
           /\ Cardinality(AutoSections) <= 1
           /\ \A n \in AutoSections :
                 /\ n = Len(document.generated)
                 /\ document.generated[n].title = "References"
                 /\ document.generated[n].text = GenerateReferences(o)
                 /\ document.generated[n].text # ""
                 /\ Len(Entries(o)) >= 1

\* a document whose sections found the registry empty and left it so, and
\* which has no References section
C23_Witness ==
    /\ document.pc = "done"
    /\ document.calls = 1
    /\ Len(document.generated) >= 1
    /\ AutoSections = {}
    /\ \A n \in 1..Len(document.generated) : document.generated[n].title = "Stability"
    /\ GetRegistry(DocumentId) # 0
    /\ Entries(GetRegistry(DocumentId)) = <<>>

\* text has a reference line for citation number n
HasReferenceLine(text, n) ==
    \E k \in 1..Len(TextLines(text)) : StartsWith(TextLines(text)[k], ToString(n) \o ". ")

\* C27: when the citation processing of a section fails at one of the
\* retrieved documents, the citations admitted before it are in the registry
\* under their numbers and in the references generated from it, and the
\* section's content is the LLM's text without any marker; the references
\* the document is assembled with list every citation its sections admitted.
C27_NoRollbackOnFailure ==
    /\ (last.op = "synthesize_section" /\ last.raised = "ValidationError")
        => LET o == last.obj
           IN  /\ last.out.content = last.out.answer
               /\ \A n \in 1..Len(Entries(o)) : ~Contains(last.out.content, "[" \o ToString(n) \o "]")
               /\ \A n \in last.out.admitted :
                     /\ n \in 1..Len(Entries(o))
                     /\ Entries(o)[n].citation_number = n
                     /\ HasReferenceLine(GenerateReferences(o), n)
    /\ (last.op = "generate_references_section" /\ document.pc = "done")
        => \A k \in 1..Len(document.sections) : \A n \in document.sections[k].admitted :
              HasReferenceLine(last.out, n)

\* a section whose second retrieved document has an invalid page, the
\* first one having been admitted as a new citation
C27_Witness ==
    /\ last.op = "synthesize_section" /\ last.raised = "ValidationError"
    /\ last.out.admitted # {}
    /\ last.out.numbers # <<>>
    /\ last.out.source_count >= 2

\* ------------------------------------------------------------ inline markers
RECURSIVE Weave(_, _, _, _)
\* text[from:] with the marker of each pair from pair k on put at its point,
\* the pairs being in ascending order of their points
Weave(text, pairs, k, from) ==
    IF k > Len(pairs) THEN SubSeq(text, from + 1, Len(text))
    ELSE SubSeq(text, from + 1, pairs[k].point) \o CreateCitationHtml(pairs[k].citation)
             \o Weave(text, pairs, k + 1, pairs[k].point)

\* the arrangements of pairs by ascending point
Ascending(pairs) ==
    {[k \in 1..Len(pairs) |-> pairs[f[k]]] :
        f \in {g \in [1..Len(pairs) -> 1..Len(pairs)] :
                  /\ \A a, b \in 1..Len(pairs) : a # b => g[a] # g[b]
                  /\ \A a, b \in 1..Len(pairs) : a < b => pairs[g[a]].point <= pairs[g[b]].point}}

\* offset p of text is where a run of blanks after . ! or ? ends
IsSentenceEnd(text, p) ==
    /\ p \in 2..Len(text)
    /\ Ch(text, p) \in Whitespace
    /\ Ch(text, p + 1) \notin Whitespace
    /\ \E q \in 1..(p - 1) :
          /\ Ch(text, q) \in {".", "!", "?"}
          /\ \A x \in (q + 1)..p : Ch(text, x) \in Whitespace

\* C24: inject_inline_citations returns the content as it is for an empty
\* citation list or with show_inline_citations off; otherwise the result is
\* the content with min(citations, points) markers, the k-th citation's at
\* the k-th point, and nothing else: taking the markers out gives the
\* content back.  Points it detects itself are offsets of the content:
\* sentence ends, or, without any, the even division of the length.
C24_MarkersAtTheirOffsets ==
    last.op = "inject_inline_citations"
    => LET text == last.out.content
           cs == last.out.citations
           n == Len(cs)
           auto == DetectCitationPoints(text, n)
           points == IF last.out.points.given THEN last.out.points.at ELSE auto
           m == IF n < Len(points) THEN n ELSE Len(points)
           pairs == [k \in 1..m |-> [citation |-> cs[k], point |-> points[k]]]
           markers == [k \in 1..m |-> Len(CreateCitationHtml(cs[k]))]
           total[k \in 0..m] == IF k = 0 THEN 0 ELSE total[k - 1] + markers[k]
       IN  IF n = 0 \/ ~last.out.show THEN last.out.result = text
           ELSE /\ Len(last.out.result) = Len(text) + total[m]
                /\ \E arranged \in Ascending(pairs) : last.out.result = Weave(text, arranged, 1, 0)
                /\ ~last.out.points.given
                     => /\ Len(auto) <= n
                        /\ \A k \in 1..Len(auto) :
                              /\ auto[k] \in 0..Len(text)
                              /\ \/ IsSentenceEnd(text, auto[k])
                                 \/ /\ \A p \in 0..Len(text) : ~IsSentenceEnd(text, p)
                                    /\ auto[k] = (k * Len(text)) \div n

\* markers at caller-given offsets in ascending order, which the injector
\* has to take from the last to the first
C24_Witness ==
    /\ last.op = "inject_inline_citations"
    /\ last.out.show
    /\ last.out.points.given
    /\ Len(last.out.citations) >= 2
    /\ Len(last.out.points.at) >= 2
    /\ last.out.points.at[1] < last.out.points.at[2]
    /\ last.out.result # last.out.content

\* ------------------------------------------------------------ the endpoints
\* C25: GET documents/{id}, /statistics, /references and /export answer a
\* document_id without registry, and /references and /export also a
\* registry without entries, with status 404, and never with a made-up
\* payload.
C25_MissingDocumentIsNotFound ==
    LET unknown == last.obj = 0
        nothing == last.obj # 0 /\ Len(Entries(last.obj)) = 0
    IN  /\ (last.op \in {"endpoint_document_citations", "endpoint_statistics"} /\ unknown)
            => (last.out.status = 404 /\ ~last.out.mock)
        /\ (last.op \in {"endpoint_references", "endpoint_export_citations"} /\ (unknown \/ nothing))
            => (last.out.status = 404 /\ ~last.out.mock)

\* C28: for a registry of n >= 1 citations get_structured_references returns
\* n references, one per citation number in ascending order, and
\* total_count n; its empty answer means no registry or no citations.
C28_StructuredReferencesReflectRegistry ==
    last.op = "endpoint_structured_references"
    => LET n == IF last.obj = 0 THEN 0 ELSE Len(Entries(last.obj))
       IN  /\ last.out.total_count = n
           /\ Len(last.out.references) = n
           /\ \A k \in 1..Len(last.out.references) :
                 last.out.references[k].citation_number = Entries(last.obj)[k].citation_number

\* ------------------------------------------------------------ the mutators
\* C26: after any interleaving of add_citation, track_chunk_citation and
\* create_inline_citation (with any citation_number) no two entries of a
\* registry carry the same citation_number, and every entry's marker_text
\* is "[N]" and its anchor_id "cite-N" for its own number N.
C26_NumbersUniqueUnderAllMutators ==
    \A o \in Objects :
        /\ \A i, j \in 1..Len(Entries(o)) :
              i # j => Entries(o)[i].citation_number # Entries(o)[j].citation_number
        /\ \A i \in 1..Len(Entries(o)) :
              /\ Entries(o)[i].marker_text = "[" \o ToString(Entries(o)[i].citation_number) \o "]"
              /\ Entries(o)[i].anchor_id = "cite-" \o ToString(Entries(o)[i].citation_number)

\* ------------------------------------------------------------- bookkeeping
\* C29: in a registry mutated only through add_citation the counter, the
\* length of inline_citations and the number of keys of the chunk_id map
\* are equal, the keys are exactly the chunk_ids of the entries, and the
\* entry at the i-th position carries the number i.
C29_Bookkeeping ==
    \A o \in Objects :
        LET reg == heap[o]
            es == reg.inline_citations
        IN  /\ reg.citation_counter = Len(es)
            /\ Cardinality(DOMAIN reg.citations) = Len(es)
            /\ DOMAIN reg.citations = {es[i].chunk_citation.chunk_id : i \in 1..Len(es)}
            /\ \A i \in 1..Len(es) : es[i].citation_number = i

\* a registry of two entries that has also answered a call without
\* admitting anything
C29_Witness ==
    /\ last.op = "add_citation" /\ last.obj # 0 /\ ~last.admitted /\ last.raised = ""
    /\ Len(Entries(last.obj)) = 2

\* ------------------------------------------------------------ independence
\* C30: add_citation, track_chunk_citation and process_generated_content
\* against one document leave the registry of every other document as it
\* was; each registry numbers its own entries 1, 2, ... whatever the others
\* hold; and a citation whose (source, page) and chunk_id its own registry
\* does not hold is admitted with that registry's next number even when
\* another document's registry holds the same (source, page).
C30_RegistriesIndependent ==
    [][last'.op \in {"add_citation", "track_chunk_citation", "process_generated_content"}
       => /\ \A d \in Docs :
                d # last'.doc
                => /\ registries'[d] = registries[d]
                   /\ registries[d] # 0 => heap'[registries[d]] = heap[registries[d]]
          /\ \A d \in Docs :
                registries'[d] # 0
                => \A i \in 1..Len(heap'[registries'[d]].inline_citations) :
                      heap'[registries'[d]].inline_citations[i].citation_number = i
          /\ (/\ last'.op \in {"add_citation", "track_chunk_citation"}
              /\ last'.doc \in Docs /\ registries[last'.doc] # 0 /\ last'.raised = "")
             => LET es == heap[registries[last'.doc]].inline_citations
                    held == \E i \in 1..Len(es) :
                               \/ EntryKey(es[i]) = <<last'.cit.pdf_name, last'.cit.page_number>>
                               \/ es[i].chunk_citation.chunk_id = last'.cit.chunk_id
                IN  ~held => (last'.admitted /\ last'.ret = Len(es) + 1)]_vars

\* both documents hold the same (source, page) as their first entry, the
\* second of them just admitted
C30_Witness ==
    /\ last.op = "add_citation" /\ last.admitted
    /\ \A d \in Docs : registries[d] # 0 /\ Len(Entries(registries[d])) >= 1
    /\ EntryKey(Entries(registries["A"])[1]) = EntryKey(Entries(registries["B"])[1])
    /\ Entries(registries["A"])[1].citation_number = 1
    /\ Entries(registries["B"])[1].citation_number = 1

====
